---- MODULE Spec2Model ----
(***************************************************************************)
(* Model of the MatrixOperation class of mat_operation.py: construction    *)
(* from two numpy arrays (validation, then np.matmul) and the statistic    *)
(* queries over the cached product; and of the MatOpGUI window of          *)
(* mat_gui.py that reads two matrices from its tables and shows one        *)
(* statistic of their product.                                             *)
(*                                                                         *)
(* A numpy array is a record [shape, data]: shape is the tuple np.shape    *)
(* returns and data the elements in row-major (C) order, so element        *)
(* [i][j] (0-based) of a 2-D array with c columns is data[i*c + j + 1].    *)
(*                                                                         *)
(* The elements of the arrays of one run have one dtype.  A float64        *)
(* element is held as a number: the values and sizes are then chosen so    *)
(* that every sum and product is an integer far inside the range where     *)
(* float64 is exact.  An int64 element is held as its eight bytes, least   *)
(* significant first, in two's complement, and added and multiplied as     *)
(* numpy does it: modulo 2^64.                                             *)
(***************************************************************************)
EXTENDS Integers, Sequences, FiniteSets, TLC

VARIABLES
    name, matrixA, matrixB,  \* the arguments the caller constructs with
    self,      \* the attributes assigned to the MatrixOperation object
    matop,     \* whether the caller's variable is bound to the object
    pc,        \* the caller's position
    call,      \* the call just made: method and index argument
    raised,    \* the error that call raised, NoError when it returned
    returned,  \* the value that call returned, NoResult when it raised
    rejected,  \* how many queries on the object have raised so far
    previous,  \* the call before the last one and its outcome, where kept
    dtype,     \* the dtype of the arrays of this run: "float64" or "int64"
    \* the MatOpGUI window
    opCounter,           \* self.__opCounter
    opSelectComboBox,    \* the current text of the operation combo box
    opEntryField,        \* the row/column entry: its text and visibility
    nameLineEdit,        \* the text of the run name
    matrixAInputTable,   \* the tables: row count, column count and the
    matrixBInputTable,   \*   texts of the cells in row-major order
    outputTextBox,       \* the output: visibility and the blocks appended
    messagebox,          \* the QMessageBox.critical the last event showed
    click,               \* the locals of the last click on a button, until
                         \*   the next event
    matrixASizeCollapsable,  \* the texts of the row and column size fields
    matrixBSizeCollapsable,
    matrixARandCollapsable,  \* the texts of the range fields and the id of
    matrixBRandCollapsable,  \*   the checked button: 0 Decimal, 1 Integer
    outfile              \* the .matop file Save has written, if any

sizeVars == <<matrixASizeCollapsable, matrixBSizeCollapsable>>
randVars == <<matrixARandCollapsable, matrixBRandCollapsable>>

guiVars == <<opCounter, opSelectComboBox, opEntryField, nameLineEdit,
             matrixAInputTable, matrixBInputTable, outputTextBox, messagebox,
             click, sizeVars, randVars, outfile>>

vars == <<name, matrixA, matrixB, self, matop, pc, call, raised, returned,
          rejected, previous, dtype, guiVars>>

\* ------------------------------------------------------------------ constants

\* largest axis length __verifyMatrixProperties accepts ("if dim > 10")
MaxSize == 10

\* MatrixOperation.ROW and MatrixOperation.COL
ROW == 0
COL == 1

\* bytes of an np.int64 element
Int64Bytes == 8

\* --------------------------------------------------------------------- bounds

\* fill patterns 0..MaxSeed for the elements of an input array
MaxSeed == 1
\* small axis lengths 0..MaxSmallDim (next to MaxSize and MaxSize + 1)
MaxSmallDim == 2
\* indices passed to a query range over -IndexSlack .. MaxSize + IndexSlack
IndexSlack == 1
\* rejected (out-of-bounds) queries counted per object
MaxRejected == 2
\* operations a window puts out before Go! is left alone
MaxOperations == 1
\* operations a window puts out while its runs are counted
MaxRuns == 3

\* ----------------------------------------------------------- numpy arrays

RECURSIVE ShapeProduct(_)
\* number of elements of an array of the given shape (1 for a 0-d array)
ShapeProduct(shape) ==
    IF shape = <<>> THEN 1 ELSE Head(shape) * ShapeProduct(Tail(shape))

\* np.shape(matrix)
NpShape(matrix) == matrix.shape

\* np.size(matrix): the number of elements
NpSize(matrix) == ShapeProduct(matrix.shape)

\* element [i][j] (0-based) of a 2-D array
At(matrix, i, j) == matrix.data[i * matrix.shape[2] + j + 1]

\* the row and the column (0-based) of the n-th element, in row-major order,
\* of a 2-D array with the given number of columns
RowOf(n, cols) == (n - 1) \div cols
ColOf(n, cols) == (n - 1) % cols

\* the 2-D array with the given rows and cols and the elements in row-major
\* order
Array2(rows, cols, elements) == [shape |-> <<rows, cols>>, data |-> elements]

\* the 1-D array of the given elements
Array1(elements) == [shape |-> <<Len(elements)>>, data |-> elements]

\* a numpy scalar
Scalar(v) == [shape |-> <<>>, data |-> <<v>>]

\* ------------------------------------------------------- element arithmetic

\* the values of one byte are 0..Radix - 1
Radix == 2 ^ 8

\* byte n (from 1, least significant first) of a number v in 0..2^31 - 1
ByteAt(v, n) == IF n <= 4 THEN (v \div Radix ^ (n - 1)) % Radix ELSE 0

\* the int64 element holding the number v, -2^31 < v < 2^31
Word(v) ==
    IF v >= 0
    THEN [n \in 1..Int64Bytes |-> ByteAt(v, n)]
    ELSE [n \in 1..Int64Bytes |-> Radix - 1 - ByteAt(0 - v - 1, n)]

\* the number an int64 element holds, for elements that fit in 32 bits
WordValue(x) ==
    CASE \A n \in 5..Int64Bytes : x[n] = 0 ->
            x[1] + Radix * x[2] + Radix ^ 2 * x[3] + Radix ^ 3 * x[4]
      [] \A n \in 5..Int64Bytes : x[n] = Radix - 1 ->
            0 - 1 - (Radix - 1 - x[1]) - Radix * (Radix - 1 - x[2])
              - Radix ^ 2 * (Radix - 1 - x[3]) - Radix ^ 3 * (Radix - 1 - x[4])

\* mutant of WordAdd: no carry passes from one byte to the next
WordAddWithoutCarry(x, y) == [n \in 1..Int64Bytes |-> (x[n] + y[n]) % Radix]

\* int64 addition: byte by byte with carry, the carry out of the last byte
\* is dropped
WordAdd(x, y) ==
    LET total[n \in 0..Int64Bytes] ==
            IF n = 0 THEN 0 ELSE x[n] + y[n] + total[n - 1] \div Radix
    IN  [n \in 1..Int64Bytes |-> total[n] % Radix]

RECURSIVE ColumnSum(_, _, _, _)
\* the sum of the byte products x[i] * y[n + 1 - i] for i from the given one
\* up to n: what the product contributes at byte n
ColumnSum(x, y, n, i) ==
    IF i > n THEN 0
    ELSE x[i] * y[n + 1 - i] + ColumnSum(x, y, n, i + 1)

\* mutant of WordMul: the product is kept in 32 bits and sign-extended
WordMulIn32Bits(x, y) ==
    LET total[n \in 0..Int64Bytes] ==
            IF n = 0 THEN 0
            ELSE ColumnSum(x, y, n, 1) + total[n - 1] \div Radix
    IN  [n \in 1..Int64Bytes |->
            IF n <= 4 THEN total[n] % Radix
            ELSE IF total[4] % Radix >= Radix \div 2 THEN Radix - 1 ELSE 0]

\* int64 multiplication: the low eight bytes of the product
WordMul(x, y) ==
    LET total[n \in 0..Int64Bytes] ==
            IF n = 0 THEN 0
            ELSE ColumnSum(x, y, n, 1) + total[n - 1] \div Radix
    IN  [n \in 1..Int64Bytes |-> total[n] % Radix]

\* int64 comparison: signed, decided at the most significant byte that differs
WordLess(x, y) ==
    LET differ == {n \in 1..Int64Bytes : x[n] # y[n]}
    IN  /\ differ # {}
        /\ LET top == CHOOSE n \in differ : \A m \in differ : m <= n
           IN  IF top = Int64Bytes
               THEN (x[top] + Radix \div 2) % Radix
                      < (y[top] + Radix \div 2) % Radix
               ELSE x[top] < y[top]

\* the elements 0 and 1, the sum, the product and the order of two elements,
\* and the float64 value of an element
Zero == IF dtype = "int64" THEN Word(0) ELSE 0
One == IF dtype = "int64" THEN Word(1) ELSE 1
ElemAdd(x, y) == IF dtype = "int64" THEN WordAdd(x, y) ELSE x + y
ElemMul(x, y) == IF dtype = "int64" THEN WordMul(x, y) ELSE x * y
ElemLess(x, y) == IF dtype = "int64" THEN WordLess(x, y) ELSE x < y
Number(x) == IF dtype = "int64" THEN WordValue(x) ELSE x

\* ------------------------------------------------------------------ inputs

Seeds == 0..MaxSeed

\* an axis is small when its elements are filled densely
IsSmall(shape) == \A d \in 1..Len(shape) : shape[d] <= MaxSmallDim

\* dense fill: values -2..2, varying with the position and the seed
DenseValue(seed, n) == ((n * (seed + 2) + seed) % 5) - 2

\* sparse fill of a 2-D array with a long axis: one entry of each row is 1 or
\* -1, the others are 0 (so that products over 10 x 10 elements stay small)
SparseValue(seed, cols, n) ==
    LET i == RowOf(n, cols)
        j == ColOf(n, cols)
    IN  IF j # (i + seed) % cols THEN 0
        ELSE IF (i + seed) % 3 = 0 THEN -1 ELSE 1

MkArray(shape, seed) ==
    [shape |-> shape,
     data  |-> [n \in 1..ShapeProduct(shape) |->
                  IF Len(shape) = 2 /\ ~IsSmall(shape)
                  THEN SparseValue(seed, shape[2], n)
                  ELSE DenseValue(seed, n)]]

AxisLengths == (0..MaxSmallDim) \cup {MaxSize, MaxSize + 1}

Shapes2D == {<<r, c>> : r \in AxisLengths, c \in AxisLengths}

\* shapes of arrays that are not 2-D: 0-d, 1-d and 3-d, some of them also
\* empty or with an axis longer than MaxSize
ShapesNot2D ==
    {<<>>, <<0>>, <<2>>, <<MaxSize + 1>>,
     <<2, 2, 2>>, <<0, 2, 2>>, <<2, MaxSize + 1, 1>>}

Arrays == {MkArray(s, seed) : s \in Shapes2D \cup ShapesNot2D, seed \in Seeds}

Names == {"", "Nominal Matrices"}

Indices == (0 - IndexSlack)..(MaxSize + IndexSlack)

\* ------------------------------------------------------------------ errors

NoError == [kind |-> "none"]

\* MatrixOperationError with the values its message is formatted from
DimsError(order, dims) == [kind |-> "dims", order |-> order, dims |-> dims]
EmptyError(order) == [kind |-> "empty", order |-> order]
TooLargeError(order, i, dim) ==
    [kind |-> "toolarge", order |-> order, axis |-> i, dim |-> dim]
MismatchError(matrixACol, matrixBRow) ==
    [kind |-> "mismatch", matrixACol |-> matrixACol, matrixBRow |-> matrixBRow]
ColIndexError(index, productCols) ==
    [kind |-> "colindex", index |-> index, bound |-> productCols]
RowIndexError(index, productRows) ==
    [kind |-> "rowindex", index |-> index, bound |-> productRows]

\* ------------------------------------------------------------ construction

RECURSIVE FirstTooLargeOffByOne(_, _, _)
\* mutant of FirstTooLarge: an axis of exactly MaxSize is rejected too
FirstTooLargeOffByOne(shape, i, order) ==
    IF i >= Len(shape) THEN NoError
    ELSE IF shape[i + 1] >= MaxSize
         THEN TooLargeError(order, i, shape[i + 1])
         ELSE FirstTooLargeOffByOne(shape, i + 1, order)

\* mutant of FirstTooLarge: only the first axis is examined
FirstTooLargeAxis0Only(shape, i, order) ==
    IF i < Len(shape) /\ shape[i + 1] > MaxSize
    THEN TooLargeError(order, i, shape[i + 1])
    ELSE NoError

\* mutant of FirstTooLarge: the last axis longer than MaxSize is reported
FirstTooLargeReportsLast(shape, i, order) ==
    LET large == {d \in (i + 1)..Len(shape) : shape[d] > MaxSize}
    IN  IF large = {} THEN NoError
        ELSE LET last == CHOOSE d \in large : \A e \in large : e <= d
             IN  TooLargeError(order, last - 1, shape[last])

RECURSIVE FirstTooLarge(_, _, _)
\* the loop "for i, dim in enumerate(shape)": the error of the first axis
\* i (0-based) longer than MaxSize, NoError when there is none
FirstTooLarge(shape, i, order) ==
    IF i >= Len(shape) THEN NoError
    ELSE IF shape[i + 1] > MaxSize
         THEN TooLargeError(order, i, shape[i + 1])
         ELSE FirstTooLarge(shape, i + 1, order)

\* mutant of VerifyMatrixProperties: the size bound is tested before emptiness
VerifyBoundBeforeEmpty(matrix, order) ==
    LET shape == NpShape(matrix)
        size  == NpSize(matrix)
        dims  == Len(shape)
        large == FirstTooLarge(shape, 0, order)
    IN  IF dims # 2 THEN DimsError(order, dims)
        ELSE IF large # NoError THEN large
        ELSE IF size = 0 THEN EmptyError(order)
        ELSE NoError

\* mutant of VerifyMatrixProperties: emptiness is not tested
VerifyWithoutEmptyTest(matrix, order) ==
    LET shape == NpShape(matrix)
        dims  == Len(shape)
    IN  IF dims # 2 THEN DimsError(order, dims)
        ELSE FirstTooLarge(shape, 0, order)

\* __verifyMatrixProperties: the error it raises, NoError when it returns
VerifyMatrixProperties(matrix, order) ==
    LET shape == NpShape(matrix)
        size  == NpSize(matrix)
        dims  == Len(shape)
    IN  IF dims # 2 THEN DimsError(order, dims)
        ELSE IF size = 0 THEN EmptyError(order)
        ELSE FirstTooLarge(shape, 0, order)

RECURSIVE DotFrom(_, _, _, _, _)
\* the inner product of row i of a and column j of b, accumulated from k on
DotFrom(a, b, i, j, k) ==
    IF k >= a.shape[2] THEN Zero
    ELSE ElemAdd(ElemMul(At(a, i, k), At(b, k, j)), DotFrom(a, b, i, j, k + 1))

\* mutant of MatMul: the first term of every inner product is left out
MatMulFromSecondTerm(a, b) ==
    LET rows == a.shape[1]
        cols == b.shape[2]
    IN  Array2(rows, cols,
               [n \in 1..(rows * cols) |->
                  DotFrom(a, b, RowOf(n, cols), ColOf(n, cols), 1)])

\* np.matmul of two 2-D arrays
MatMul(a, b) ==
    LET rows == a.shape[1]
        cols == b.shape[2]
    IN  Array2(rows, cols,
               [n \in 1..(rows * cols) |->
                  DotFrom(a, b, RowOf(n, cols), ColOf(n, cols), 0)])

\* mutant of InitError: the compatibility test is missing
InitErrorNoShapeTest(mA, mB) ==
    LET errA == VerifyMatrixProperties(mA, "first")
    IN  IF errA # NoError THEN errA
        ELSE VerifyMatrixProperties(mB, "second")

\* mutant of InitError: the second matrix is verified before the first
InitErrorSecondFirst(mA, mB) ==
    LET errB == VerifyMatrixProperties(mB, "second")
    IN  IF errB # NoError THEN errB
        ELSE LET errA == VerifyMatrixProperties(mA, "first")
             IN  IF errA # NoError THEN errA
                 ELSE IF NpShape(mA)[2] # NpShape(mB)[1]
                      THEN MismatchError(NpShape(mA)[2], NpShape(mB)[1])
                      ELSE NoError

\* the error __init__ raises for its two arrays, NoError when it completes
InitError(mA, mB) ==
    LET errA == VerifyMatrixProperties(mA, "first")
    IN  IF errA # NoError THEN errA
        ELSE LET errB == VerifyMatrixProperties(mB, "second")
             IN  IF errB # NoError THEN errB
                 ELSE LET matrixACol == NpShape(mA)[2]
                          matrixBRow == NpShape(mB)[1]
                      IN  IF matrixACol # matrixBRow
                          THEN MismatchError(matrixACol, matrixBRow)
                          ELSE NoError

\* np.matmul raises its own ValueError when the inner dimensions differ
NumpyValueError == [kind |-> "ValueError"]

\* mutant of FailedObject: the arguments are stored before they are verified
FailedObjectWithArguments ==
    [valid |-> FALSE, name |-> name, matrixA |-> matrixA, matrixB |-> matrixB]

\* the attributes of the object when __init__ raised during validation: only
\* the validity flag of line 44 has been assigned
FailedObject == [valid |-> FALSE]

\* the attributes of the object when np.matmul raised: the arguments have
\* been stored, the product and the final flag have not
UnmultipliedObject(n, mA, mB) ==
    [valid |-> FALSE, name |-> n, matrixA |-> mA, matrixB |-> mB]

\* the attributes of the object when __init__ completed
BuiltObject(n, mA, mB) ==
    [valid |-> TRUE, name |-> n, matrixA |-> mA, matrixB |-> mB,
     product |-> MatMul(mA, mB)]

\* ------------------------------------------------------------- statistics

RECURSIVE SumRange(_, _, _)
\* np.sum of the elements s[lo..hi], added pairwise by halves
SumRange(s, lo, hi) ==
    IF lo > hi THEN Zero
    ELSE IF lo = hi THEN s[lo]
    ELSE LET mid == (lo + hi) \div 2
         IN  ElemAdd(SumRange(s, lo, mid), SumRange(s, mid + 1, hi))

RECURSIVE ProdRange(_, _, _)
\* np.prod of the elements s[lo..hi], multiplied by halves
ProdRange(s, lo, hi) ==
    IF lo > hi THEN One
    ELSE IF lo = hi THEN s[lo]
    ELSE LET mid == (lo + hi) \div 2
         IN  ElemMul(ProdRange(s, lo, mid), ProdRange(s, mid + 1, hi))

RECURSIVE MinRange(_, _, _)
\* np.min of the elements s[lo..hi], lo <= hi
MinRange(s, lo, hi) ==
    IF lo >= hi THEN s[lo]
    ELSE LET mid == (lo + hi) \div 2
             l   == MinRange(s, lo, mid)
             r   == MinRange(s, mid + 1, hi)
         IN  IF ElemLess(r, l) THEN r ELSE l

RECURSIVE MaxRange(_, _, _)
\* np.max of the elements s[lo..hi], lo <= hi
MaxRange(s, lo, hi) ==
    IF lo >= hi THEN s[lo]
    ELSE LET mid == (lo + hi) \div 2
             l   == MaxRange(s, lo, mid)
             r   == MaxRange(s, mid + 1, hi)
         IN  IF ElemLess(l, r) THEN r ELSE l

RECURSIVE Gcd(_, _)
Gcd(a, b) == IF b = 0 THEN a ELSE Gcd(b, a % b)

Abs(x) == IF x < 0 THEN 0 - x ELSE x

\* the floating-point value num / den, kept exact as a fraction in lowest terms
Fraction(num, den) ==
    LET g == Gcd(Abs(num), den)
    IN  [num |-> num \div g, den |-> den \div g]

\* the k-th smallest (k from 1) element of a sequence: the element at
\* position k once the sequence is sorted
KthSmallest(s, k) ==
    CHOOSE x \in {s[n] : n \in 1..Len(s)} :
        /\ Cardinality({n \in 1..Len(s) : ElemLess(s[n], x)}) < k
        /\ Cardinality({n \in 1..Len(s) : ~ElemLess(x, s[n])}) >= k

RECURSIVE FloatSum(_, _, _)
\* the sum of the float64 values of the elements s[lo..hi], added by halves
FloatSum(s, lo, hi) ==
    IF lo > hi THEN 0
    ELSE IF lo = hi THEN Number(s[lo])
    ELSE LET mid == (lo + hi) \div 2
         IN  FloatSum(s, lo, mid) + FloatSum(s, mid + 1, hi)

\* np.mean of a non-empty sequence of elements: computed in float64
Mean(s) == Fraction(FloatSum(s, 1, Len(s)), Len(s))

\* mutant of Median: the lower of the two middle elements of an even count
MedianLowerMiddle(s) ==
    LET n == Len(s)
    IN  Fraction(Number(KthSmallest(s, (n + 1) \div 2)), 1)

\* np.median of a non-empty sequence of elements
Median(s) ==
    LET n == Len(s)
    IN  IF n % 2 = 1 THEN Fraction(Number(KthSmallest(s, (n + 1) \div 2)), 1)
        ELSE Fraction(Number(KthSmallest(s, n \div 2))
                      + Number(KthSmallest(s, n \div 2 + 1)), 2)

Reductions == {"sum", "prod", "mean", "median", "min", "max"}
Cumulatives == {"cumsum", "cumprod"}

\* a reducing statistic function applied to a sequence of elements
Reduce(statFunc, s) ==
    CASE statFunc \in {"sum", "cumsum"}   -> SumRange(s, 1, Len(s))
      [] statFunc \in {"prod", "cumprod"} -> ProdRange(s, 1, Len(s))
      [] statFunc = "mean"   -> Mean(s)
      [] statFunc = "median" -> Median(s)
      [] statFunc = "min"    -> MinRange(s, 1, Len(s))
      [] statFunc = "max"    -> MaxRange(s, 1, Len(s))

\* mutant of Prefix: the element at position len itself is left out
PrefixBeforeLast(s, len) == [n \in 1..(len - 1) |-> s[n]]

\* the first len elements of a sequence
Prefix(s, len) == [n \in 1..len |-> s[n]]

\* the elements of a 2-D array along the axis, at position p of the other
\* axis: column p for axis 0, row p for axis 1
Lane(matrix, axis, p) ==
    IF axis = 0
    THEN [n \in 1..matrix.shape[1] |-> At(matrix, n - 1, p)]
    ELSE [n \in 1..matrix.shape[2] |-> At(matrix, p, n - 1)]

\* statFunc(matrix, axis = axis) for the numpy functions the class passes;
\* axis is <<>> for None
ApplyStat(statFunc, matrix, axis) ==
    IF axis = <<>>
    THEN IF statFunc \in Reductions
         THEN Scalar(Reduce(statFunc, matrix.data))
         ELSE \* a cumulative function without axis works on the flattened array
              Array1([n \in 1..Len(matrix.data) |->
                        Reduce(statFunc, Prefix(matrix.data, n))])
    ELSE IF statFunc \in Reductions
         THEN Array1([n \in 1..matrix.shape[2 - axis[1]] |->
                        Reduce(statFunc, Lane(matrix, axis[1], n - 1))])
         ELSE LET rows == matrix.shape[1]
                  cols == matrix.shape[2]
              IN  Array2(rows, cols,
                   [n \in 1..(rows * cols) |->
                      IF axis[1] = 0
                      THEN Reduce(statFunc,
                                  Prefix(Lane(matrix, 0, ColOf(n, cols)),
                                         RowOf(n, cols) + 1))
                      ELSE Reduce(statFunc,
                                  Prefix(Lane(matrix, 1, RowOf(n, cols)),
                                         ColOf(n, cols) + 1))])

\* the properties productShape, productRows and productCols
ProductShape(obj) == NpShape(obj.product)
ProductRows(obj) == ProductShape(obj)[1]
ProductCols(obj) == ProductShape(obj)[2]

\* the bounds test of a column query: "index < 0 or self.productCols <= index"
ColIndexOutOfBounds(index, productCols) == index < 0 \/ productCols <= index

\* mutant of RowIndexOutOfBounds: a negative index is not tested for
RowIndexNoNegativeTest(index, productRows) == productRows <= index

\* the bounds test of a row query: "index < 0 or self.productRows <= index"
RowIndexOutOfBounds(index, productRows) == index < 0 \/ productRows <= index

\* numpy's own IndexError, raised when an index is out of bounds for an axis
NumpyIndexError(index, size) ==
    [kind |-> "numpy", index |-> index, bound |-> size]

\* numpy counts a negative index from the end of the axis
FromEnd(index, size) == IF index < 0 THEN index + size ELSE index

\* self.product[:, index]
ColSlice(matrix, index) ==
    LET col == FromEnd(index, matrix.shape[2])
    IN  Array1([n \in 1..matrix.shape[1] |-> At(matrix, n - 1, col)])

\* self.product[index, :]
RowSlice(matrix, index) ==
    LET row == FromEnd(index, matrix.shape[1])
    IN  Array1([n \in 1..matrix.shape[2] |-> At(matrix, row, n - 1)])

NoCall == [op |-> "none", statFunc |-> "", direction |-> <<>>, args |-> <<>>]
NoResult == [shape |-> <<>>, data |-> <<>>]

\* no earlier call is remembered
NoPrevious == [call |-> NoCall, raised |-> NoError, returned |-> NoResult]

Raise(err) == [raised |-> err, returned |-> NoResult]
Return(value) == [raised |-> NoError, returned |-> value]

\* mutant of GetProductStatistic: axis stays None when no index is given
GetProductStatisticAxisUnset(obj, statFunc, direction, index) ==
    IF direction = <<COL>> /\ index # <<>>
    THEN IF ColIndexOutOfBounds(index[1], ProductCols(obj))
         THEN Raise(ColIndexError(index[1], ProductCols(obj)))
         ELSE Return(ApplyStat(statFunc, ColSlice(obj.product, index[1]), <<>>))
    ELSE IF direction = <<ROW>> /\ index # <<>>
    THEN IF RowIndexOutOfBounds(index[1], ProductRows(obj))
         THEN Raise(RowIndexError(index[1], ProductRows(obj)))
         ELSE Return(ApplyStat(statFunc, RowSlice(obj.product, index[1]), <<>>))
    ELSE Return(ApplyStat(statFunc, obj.product, <<>>))

\* __getProductStatistic(statFunc, direction, index): what it raises or
\* returns; direction and index are <<>> for None
GetProductStatistic(obj, statFunc, direction, index) ==
    IF direction = <<COL>>
    THEN IF index # <<>>
         THEN IF ColIndexOutOfBounds(index[1], ProductCols(obj))
              THEN Raise(ColIndexError(index[1], ProductCols(obj)))
              ELSE IF index[1] < 0 - ProductCols(obj)
                      \/ index[1] >= ProductCols(obj)
              THEN Raise(NumpyIndexError(index[1], ProductCols(obj)))
              ELSE Return(ApplyStat(statFunc,
                                    ColSlice(obj.product, index[1]), <<>>))
         ELSE Return(ApplyStat(statFunc, obj.product, <<0>>))
    ELSE IF direction = <<ROW>>
    THEN IF index # <<>>
         THEN IF RowIndexOutOfBounds(index[1], ProductRows(obj))
              THEN Raise(RowIndexError(index[1], ProductRows(obj)))
              ELSE IF index[1] < 0 - ProductRows(obj)
                      \/ index[1] >= ProductRows(obj)
              THEN Raise(NumpyIndexError(index[1], ProductRows(obj)))
              ELSE Return(ApplyStat(statFunc,
                                    RowSlice(obj.product, index[1]), <<>>))
         ELSE Return(ApplyStat(statFunc, obj.product, <<1>>))
    ELSE Return(ApplyStat(statFunc, obj.product, <<>>))

\* ------------------------------------------------------- the window as built

\* MatOpGUI.OPERATIONS, OPS_TO_MAKE_ENTRY_VISIBLE and OPS_ON_ROW
OPERATIONS ==
    <<"Multiply",
      "Sum of Column of Product",
      "Product of Column of Product",
      "Cumulative Sum Along Column of Product",
      "Cumulative Product Along Column of Product",
      "Sum of Row of Product",
      "Product of Row of Product",
      "Cumulative Sum Along Row of Product",
      "Cumulative Product Along Row of Product",
      "Min of Product",
      "Max of Product",
      "Mean of Product",
      "Median of Product",
      "Total Sum of Product",
      "Total Product of Product">>

OPS_TO_MAKE_ENTRY_VISIBLE ==
    {"Sum of Column of Product", "Product of Column of Product",
     "Sum of Row of Product", "Product of Row of Product"}

OPS_ON_ROW == {"Sum of Row of Product", "Product of Row of Product"}

\* a text is the sequence of its characters
EmptyText == <<>>

\* QTableWidget(rows, cols) with an empty item in every cell
NewTable(rows, cols) ==
    [rows |-> rows, cols |-> cols,
     cells |-> [n \in 1..(rows * cols) |-> EmptyText]]

NoMessage == [title |-> "none"]

\* no click has left locals behind
NoClick == [reached |-> "none"]

\* nothing has been saved
NoFile == [written |-> FALSE, blocks |-> <<>>]

\* MatOpGUI.__init__: the window as __createGUI builds it
GuiInit ==
    /\ opCounter = 0
    /\ opSelectComboBox = OPERATIONS[1]
    /\ opEntryField = [text |-> EmptyText, visible |-> FALSE,
                       placeholder |-> ""]
    /\ nameLineEdit = EmptyText
    /\ matrixAInputTable = NewTable(3, 3)
    /\ matrixBInputTable = NewTable(3, 3)
    /\ outputTextBox = [visible |-> FALSE, blocks |-> <<>>]
    /\ messagebox = NoMessage
    /\ click = NoClick
    /\ matrixASizeCollapsable = [rowSize |-> <<"3">>, colSize |-> <<"3">>]
    /\ matrixBSizeCollapsable = [rowSize |-> <<"3">>, colSize |-> <<"3">>]
    /\ matrixARandCollapsable =
          [minRandRange |-> <<"0", ".", "0">>,
           maxRandRange |-> <<"1", ".", "0">>, checkedId |-> 0]
    /\ matrixBRandCollapsable =
          [minRandRange |-> <<"0", ".", "0">>,
           maxRandRange |-> <<"1", ".", "0">>, checkedId |-> 0]
    /\ outfile = NoFile

Init ==
    /\ name \in Names
    /\ matrixA \in Arrays
    /\ matrixB \in Arrays
    /\ self = <<>>
    /\ matop = "unbound"
    /\ pc = "start"
    /\ raised = NoError
    /\ returned = NoResult
    /\ call = NoCall
    /\ rejected = 0
    /\ previous = NoPrevious
    /\ dtype = "float64"
    /\ GuiInit

\* matop = MatrixOperation(name, matrixA, matrixB)
MatrixOperationInit ==
    /\ pc = "start"
    /\ call' = [op |-> "__init__", statFunc |-> "", direction |-> <<>>,
                args |-> <<>>]
    /\ LET err == InitError(matrixA, matrixB)
       IN  IF err # NoError
           THEN /\ raised' = err
                /\ self' = FailedObject
                /\ matop' = "unbound"
                /\ pc' = "failed"
           ELSE IF NpShape(matrixA)[2] # NpShape(matrixB)[1]
           THEN /\ raised' = NumpyValueError
                /\ self' = UnmultipliedObject(name, matrixA, matrixB)
                /\ matop' = "unbound"
                /\ pc' = "failed"
           ELSE /\ raised' = NoError
                /\ self' = BuiltObject(name, matrixA, matrixB)
                /\ matop' = "bound"
                /\ pc' = "returned"
    /\ UNCHANGED <<name, matrixA, matrixB, returned, rejected, previous,
                 dtype, guiVars>>

\* mutant of Query: a call that raises marks the object invalid
QueryInvalidating(op, statFunc, direction, index) ==
    /\ pc = "ready"
    /\ matop = "bound"
    /\ pc' = "returned"
    /\ LET out == GetProductStatistic(self, statFunc, direction, index)
       IN  /\ out.raised # NoError => rejected < MaxRejected
           /\ raised' = out.raised
           /\ returned' = out.returned
           /\ rejected' = IF out.raised # NoError THEN rejected + 1 ELSE rejected
           /\ self' = IF out.raised # NoError
                      THEN [self EXCEPT !.valid = FALSE]
                      ELSE self
    /\ call' = [op |-> op, statFunc |-> statFunc, direction |-> direction,
                args |-> index]
    /\ UNCHANGED <<name, matrixA, matrixB, matop, previous,
                 dtype, guiVars>>

\* mutant of Query: a cumulative statistic is accumulated in place, in the
\* array the object holds
QueryAccumulatingInPlace(op, statFunc, direction, index) ==
    /\ pc = "ready"
    /\ matop = "bound"
    /\ pc' = "returned"
    /\ LET out == GetProductStatistic(self, statFunc, direction, index)
       IN  /\ out.raised # NoError => rejected < MaxRejected
           /\ raised' = out.raised
           /\ returned' = out.returned
           /\ rejected' = IF out.raised # NoError THEN rejected + 1 ELSE rejected
           /\ self' = IF statFunc \in Cumulatives
                      THEN [self EXCEPT !.product = out.returned]
                      ELSE self
    /\ call' = [op |-> op, statFunc |-> statFunc, direction |-> direction,
                args |-> index]
    /\ UNCHANGED <<name, matrixA, matrixB, matop, previous,
                 dtype, guiVars>>

\* a call of one of the fourteen getProduct* methods on the caller's object;
\* rejected counts the calls that raised
Query(op, statFunc, direction, index) ==
    /\ pc = "ready"
    /\ matop = "bound"
    /\ pc' = "returned"
    /\ LET out == GetProductStatistic(self, statFunc, direction, index)
       IN  /\ out.raised # NoError => rejected < MaxRejected
           /\ raised' = out.raised
           /\ returned' = out.returned
           /\ rejected' = IF out.raised # NoError THEN rejected + 1 ELSE rejected
    /\ call' = [op |-> op, statFunc |-> statFunc, direction |-> direction,
                args |-> index]
    /\ UNCHANGED <<name, matrixA, matrixB, self, matop, previous,
                 dtype, guiVars>>

\* mutant of getProductColSum: the row direction is passed
getProductColSumAlongRow ==
    \E colNum \in Indices : Query("getProductColSum", "sum", <<ROW>>, <<colNum>>)

getProductColSum ==
    \E colNum \in Indices : Query("getProductColSum", "sum", <<COL>>, <<colNum>>)

getProductColProd ==
    \E colNum \in Indices : Query("getProductColProd", "prod", <<COL>>, <<colNum>>)

\* mutant of getProductColCumSum: the row direction is passed
getProductColCumSumAlongRow ==
    Query("getProductColCumSum", "cumsum", <<ROW>>, <<>>)

getProductColCumSum == Query("getProductColCumSum", "cumsum", <<COL>>, <<>>)

getProductColCumProd == Query("getProductColCumProd", "cumprod", <<COL>>, <<>>)

getProductRowSum ==
    \E rowNum \in Indices : Query("getProductRowSum", "sum", <<ROW>>, <<rowNum>>)

getProductRowProd ==
    \E rowNum \in Indices : Query("getProductRowProd", "prod", <<ROW>>, <<rowNum>>)

getProductRowCumSum == Query("getProductRowCumSum", "cumsum", <<ROW>>, <<>>)

getProductRowCumProd == Query("getProductRowCumProd", "cumprod", <<ROW>>, <<>>)

getProductTotalSum == Query("getProductTotalSum", "sum", <<>>, <<>>)

getProductTotalProd == Query("getProductTotalProd", "prod", <<>>, <<>>)

getProductTotalMean == Query("getProductTotalMean", "mean", <<>>, <<>>)

getProductTotalMedian == Query("getProductTotalMedian", "median", <<>>, <<>>)

\* mutant of getProductTotalMin: np.max is passed
getProductTotalMinAsMax == Query("getProductTotalMin", "max", <<>>, <<>>)

getProductTotalMin == Query("getProductTotalMin", "min", <<>>, <<>>)

getProductTotalMax == Query("getProductTotalMax", "max", <<>>, <<>>)

\* the caller has taken the outcome of its last call and goes on to the next
Resume ==
    /\ pc = "returned"
    /\ pc' = "ready"
    /\ call' = NoCall
    /\ raised' = NoError
    /\ returned' = NoResult
    /\ UNCHANGED <<name, matrixA, matrixB, self, matop, rejected, previous,
                 dtype, guiVars>>

Next ==
    \/ MatrixOperationInit
    \/ Resume
    \/ getProductColSum
    \/ getProductColProd
    \/ getProductColCumSum
    \/ getProductColCumProd
    \/ getProductRowSum
    \/ getProductRowProd
    \/ getProductRowCumSum
    \/ getProductRowCumProd
    \/ getProductTotalSum
    \/ getProductTotalProd
    \/ getProductTotalMean
    \/ getProductTotalMedian
    \/ getProductTotalMin
    \/ getProductTotalMax

Spec == Init /\ [][Next]_vars

\* ------------------------------------------ the statistic over every line

\* a call of __getProductStatistic with np.sum or np.prod, a direction and
\* no index; no getProduct* method makes this call, the method allows it
PerLineStatistic ==
    \E statFunc \in {"sum", "prod"}, direction \in {<<ROW>>, <<COL>>} :
        Query("__getProductStatistic", statFunc, direction, <<>>)

NextPerLine == MatrixOperationInit \/ PerLineStatistic \/ Resume

SpecPerLine == Init /\ [][NextPerLine]_vars

\* ------------------------------------------------- the unit-test fixture

\* np.array(numbers, dtype = np.int64) of the given shape
IntArray(shape, numbers) ==
    [shape |-> shape,
     data  |-> [n \in 1..Len(numbers) |-> Word(numbers[n])]]

\* the matrices of TestMatOp; matrix_5 has no element, and matrix_6, an array
\* of float zeros that is refused for its size, is held with int64 zeros
matrix_1 == IntArray(<<3, 3>>, <<1, 2, 3, 4, 5, 6, 7, 8, 9>>)
matrix_2 == IntArray(<<3, 2>>, <<0, 9, 8, -8, 3, 6>>)
matrix_3 == IntArray(<<2, 2>>, <<1, 1, 4, 5>>)
matrix_4 == IntArray(<<2, 2, 2>>, <<1, 2, 3, 4, 5, 6, 7, 8>>)
matrix_5 == [shape |-> <<1, 0>>, data |-> <<>>]
matrix_6 ==
    IntArray(<<MaxSize + 1, MaxSize + 1>>,
             [n \in 1..((MaxSize + 1) * (MaxSize + 1)) |-> 0])

\* the constructions the tests make
TestConstructions ==
    {<<"Nominal Matrices", matrix_1, matrix_2>>,
     <<"Mismatched Matrices", matrix_1, matrix_3>>,
     <<"3D Matrix", matrix_1, matrix_4>>,
     <<"Empty Matrix", matrix_1, matrix_5>>,
     <<"Large Matrix", matrix_1, matrix_6>>}

InitUnitTest ==
    /\ \E test \in TestConstructions :
          name = test[1] /\ matrixA = test[2] /\ matrixB = test[3]
    /\ self = <<>>
    /\ matop = "unbound"
    /\ pc = "start"
    /\ raised = NoError
    /\ returned = NoResult
    /\ call = NoCall
    /\ rejected = 0
    /\ previous = NoPrevious
    /\ dtype = "int64"
    /\ GuiInit

SpecUnitTest == InitUnitTest /\ [][Next]_vars

\* ------------------------------------------------- int64 matrices that wrap

\* element n of an int64 input: every third one a small odd negative number,
\* the others eight bytes that vary with the position and the seed
WideValue(seed, n) ==
    IF (n + seed) % 3 = 0 THEN Word(1 - 2 * n)
    ELSE [k \in 1..Int64Bytes |->
             (37 * n + 11 * k * (seed + 1) + 5 * n * k) % Radix]

WideArray(shape, seed) ==
    [shape |-> shape,
     data  |-> [n \in 1..ShapeProduct(shape) |-> WideValue(seed, n)]]

WideA ==
    {WideArray(<<rows, 2>>, seed) : rows \in 1..MaxSmallDim, seed \in Seeds}
WideB ==
    {WideArray(<<2, cols>>, seed) : cols \in 1..MaxSmallDim, seed \in Seeds}

InitInt64 ==
    /\ name = "Nominal Matrices"
    /\ matrixA \in WideA
    /\ matrixB \in WideB
    /\ self = <<>>
    /\ matop = "unbound"
    /\ pc = "start"
    /\ raised = NoError
    /\ returned = NoResult
    /\ call = NoCall
    /\ rejected = 0
    /\ previous = NoPrevious
    /\ dtype = "int64"
    /\ GuiInit

\* construction and the queries that multiply
NextInt64 ==
    \/ MatrixOperationInit
    \/ Resume
    \/ getProductColProd
    \/ getProductColCumProd
    \/ getProductRowProd
    \/ getProductRowCumProd
    \/ getProductTotalProd

SpecInt64 == InitInt64 /\ [][NextInt64]_vars

\* ---------------------------------------------- repeated queries on one object

\* the inputs of the objects that are queried repeatedly: first matrices of
\* two columns and second matrices of two rows, of every small size
RepeatedA ==
    {MkArray(<<rows, 2>>, seed) : rows \in 2..(MaxSmallDim + 1), seed \in Seeds}
RepeatedB ==
    {MkArray(<<2, cols>>, seed) : cols \in 1..MaxSmallDim, seed \in Seeds}

InitRepeat ==
    /\ name = "Nominal Matrices"
    /\ matrixA \in RepeatedA
    /\ matrixB \in RepeatedB
    /\ self = <<>>
    /\ matop = "unbound"
    /\ pc = "start"
    /\ raised = NoError
    /\ returned = NoResult
    /\ call = NoCall
    /\ rejected = 0
    /\ previous = NoPrevious
    /\ dtype = "float64"
    /\ GuiInit

\* the caller keeps the outcome of its last call for comparison and goes on
ResumeRemembering ==
    /\ pc = "returned"
    /\ pc' = "ready"
    /\ previous' = [call |-> call, raised |-> raised, returned |-> returned]
    /\ call' = NoCall
    /\ raised' = NoError
    /\ returned' = NoResult
    /\ UNCHANGED <<name, matrixA, matrixB, self, matop, rejected,
                 dtype, guiVars>>

NextRepeat ==
    \/ MatrixOperationInit
    \/ ResumeRemembering
    \/ getProductColSum
    \/ getProductColProd
    \/ getProductColCumSum
    \/ getProductColCumProd
    \/ getProductRowSum
    \/ getProductRowProd
    \/ getProductRowCumSum
    \/ getProductRowCumProd
    \/ getProductTotalSum
    \/ getProductTotalProd
    \/ getProductTotalMean
    \/ getProductTotalMedian
    \/ getProductTotalMin
    \/ getProductTotalMax

SpecRepeat == InitRepeat /\ [][NextRepeat]_vars

\* ------------------------------------------------------- texts and numbers

DigitChars == <<"0", "1", "2", "3", "4", "5", "6", "7", "8", "9">>

IsDigit(c) == \E d \in 1..Len(DigitChars) : DigitChars[d] = c
DigitValue(c) == (CHOOSE d \in 1..Len(DigitChars) : DigitChars[d] = c) - 1
AllDigits(t) == \A n \in 1..Len(t) : IsDigit(t[n])

RECURSIVE DigitsValue(_)
\* the number a sequence of decimal digits writes
DigitsValue(t) ==
    IF t = <<>> THEN 0
    ELSE 10 * DigitsValue(SubSeq(t, 1, Len(t) - 1)) + DigitValue(t[Len(t)])

RECURSIVE Strip(_)
\* a text without its leading and trailing blanks
Strip(t) ==
    IF t # <<>> /\ t[1] = " " THEN Strip(Tail(t))
    ELSE IF t # <<>> /\ t[Len(t)] = " " THEN Strip(SubSeq(t, 1, Len(t) - 1))
    ELSE t

\* the first position of one of the characters in a text, 0 when there is none
IndexOf(t, chars) ==
    IF \E n \in 1..Len(t) : t[n] \in chars
    THEN CHOOSE n \in 1..Len(t) :
            t[n] \in chars /\ \A m \in 1..(n - 1) : t[m] \notin chars
    ELSE 0

\* float(text): "invalid" when it raises ValueError; a finite value is kept
\* exact, as a fraction in lowest terms. The text is read in steps: blanks
\* around, a sign, nan or inf, then mantissa and exponent, then the digits
\* before and after the point.

\* the value of the digits whole.part times 10 to the exponent
FiniteFloat(negative, whole, part, exponent) ==
    [kind |-> "finite",
     num  |-> (IF negative THEN 0 - 1 ELSE 1)
                * Fraction(DigitsValue(whole \o part)
                             * 10 ^ (IF exponent >= Len(part)
                                     THEN exponent - Len(part) ELSE 0),
                           10 ^ (IF exponent >= Len(part)
                                 THEN 0 ELSE Len(part) - exponent)).num,
     den  |-> Fraction(DigitsValue(whole \o part)
                         * 10 ^ (IF exponent >= Len(part)
                                 THEN exponent - Len(part) ELSE 0),
                       10 ^ (IF exponent >= Len(part)
                             THEN 0 ELSE Len(part) - exponent)).den]

ParseDigits(negative, whole, part, powDigits, powNegative, powOk) ==
    IF AllDigits(whole) /\ AllDigits(part) /\ Len(whole) + Len(part) >= 1
         /\ powOk
    THEN FiniteFloat(negative, whole, part,
                     IF powNegative THEN 0 - DigitsValue(powDigits)
                     ELSE DigitsValue(powDigits))
    ELSE [kind |-> "invalid"]

ParsePoint(negative, mantissa, point, powDigits, powNegative, powOk) ==
    ParseDigits(negative,
                IF point = 0 THEN mantissa ELSE SubSeq(mantissa, 1, point - 1),
                IF point = 0 THEN <<>>
                ELSE SubSeq(mantissa, point + 1, Len(mantissa)),
                powDigits, powNegative, powOk)

ParsePower(negative, mantissa, hasPower, power) ==
    ParsePoint(negative, mantissa, IndexOf(mantissa, {"."}),
               IF power # <<>> /\ power[1] \in {"+", "-"}
               THEN Tail(power) ELSE power,
               power # <<>> /\ power[1] = "-",
               \/ ~hasPower
               \/ /\ power \notin {<<>>, <<"+">>, <<"-">>}
                  /\ AllDigits(IF power[1] \in {"+", "-"}
                               THEN Tail(power) ELSE power))

ParseExponent(negative, body, e) ==
    ParsePower(negative,
               IF e = 0 THEN body ELSE SubSeq(body, 1, e - 1),
               e # 0,
               IF e = 0 THEN <<>> ELSE SubSeq(body, e + 1, Len(body)))

ParseBody(negative, body) ==
    IF body \in {<<"n", "a", "n">>, <<"N", "a", "N">>}
    THEN [kind |-> "nan"]
    ELSE IF body \in {<<"i", "n", "f">>,
                      <<"i", "n", "f", "i", "n", "i", "t", "y">>}
    THEN [kind |-> "inf"]
    ELSE ParseExponent(negative, body, IndexOf(body, {"e", "E"}))

ParseStripped(t) ==
    ParseBody(t # <<>> /\ t[1] = "-",
              IF t # <<>> /\ t[1] \in {"+", "-"} THEN Tail(t) ELSE t)

ParseFloat(text) == ParseStripped(Strip(text))

\* int(value) of a finite float: the fraction is dropped
Truncate(value) ==
    IF value.num >= 0 THEN value.num \div value.den
    ELSE 0 - ((0 - value.num) \div value.den)

RECURSIVE DigitsText(_)
\* the decimal digits of a number v >= 0
DigitsText(v) ==
    IF v < 10 THEN <<DigitChars[v + 1]>>
    ELSE DigitsText(v \div 10) \o <<DigitChars[(v % 10) + 1]>>

\* the text a user types for an integer
IntegerText(v) == IF v < 0 THEN <<"-">> \o DigitsText(0 - v) ELSE DigitsText(v)

RECURSIVE FractionDigits(_, _)
\* the decimal digits after the point of rem / den, for 0 < rem < den and a
\* decimal that ends
FractionDigits(rem, den) ==
    IF rem = 0 THEN <<>>
    ELSE <<DigitChars[((rem * 10) \div den) + 1]>>
           \o FractionDigits((rem * 10) % den, den)

\* str(value) of a float of moderate size: the whole part, the point and
\* the digits after it, ".0" for a whole number
FloatText(value) ==
    (IF value.num < 0 THEN <<"-">> ELSE <<>>)
      \o DigitsText(Abs(value.num) \div value.den)
      \o <<".">>
      \o (IF Abs(value.num) % value.den = 0 THEN <<"0">>
          ELSE FractionDigits(Abs(value.num) % value.den, value.den))

\* --------------------------------------------------------- the Go! button

\* QMessageBox.critical with the values its title and text are formatted from
Critical(title, problem, details) ==
    [title |-> title, problem |-> problem, details |-> details]

\* __getMatrix(table, matrixName): the message it shows and the array it
\* returns (NoResult for None). The first cell, row by row, that is empty
\* or that float() refuses ends it. The cells of the tables are kept to
\* whole numbers, which the float array holds exactly.

\* the message for the cell at position first of the row-major order
RefusedCell(table, matrixName, first) ==
    [message |->
        Critical("Invalid Matrix Entry",
                 IF table.cells[first] = EmptyText THEN "not provided"
                 ELSE "not a valid number",
                 [matrix |-> matrixName,
                  row    |-> RowOf(first, table.cols) + 1,
                  col    |-> ColOf(first, table.cols) + 1,
                  value  |-> table.cells[first]]),
     matrix |-> NoResult]

ReadCells(table, matrixName, parsed, refused) ==
    IF refused = {}
    THEN [message |-> NoMessage,
          matrix  |-> Array2(table.rows, table.cols,
                             [n \in 1..Len(parsed) |-> parsed[n].num])]
    ELSE RefusedCell(table, matrixName,
                     CHOOSE n \in refused : \A m \in refused : n <= m)

ParsedCells(table, matrixName, parsed) ==
    ReadCells(table, matrixName, parsed,
              {n \in 1..Len(parsed) :
                  \/ table.cells[n] = EmptyText
                  \/ parsed[n].kind = "invalid"})

GetMatrix(table, matrixName) ==
    ParsedCells(table, matrixName,
                [n \in 1..(table.rows * table.cols) |->
                    ParseFloat(table.cells[n])])

\* the call the dispatch of __goButtonClicked makes for each operation:
\* the method, the numpy function and the direction the method passes, and
\* whether the method is given opEntryFieldInt - 1
Dispatch(operation) ==
    CASE operation = OPERATIONS[1] ->
           [method |-> "product", statFunc |-> "", direction |-> <<>>,
            indexed |-> FALSE]
      [] operation = OPERATIONS[2] ->
           [method |-> "getProductColSum", statFunc |-> "sum",
            direction |-> <<COL>>, indexed |-> TRUE]
      [] operation = OPERATIONS[3] ->
           [method |-> "getProductColProd", statFunc |-> "prod",
            direction |-> <<COL>>, indexed |-> TRUE]
      [] operation = OPERATIONS[4] ->
           [method |-> "getProductColCumSum", statFunc |-> "cumsum",
            direction |-> <<COL>>, indexed |-> FALSE]
      [] operation = OPERATIONS[5] ->
           [method |-> "getProductColCumProd", statFunc |-> "cumprod",
            direction |-> <<COL>>, indexed |-> FALSE]
      [] operation = OPERATIONS[6] ->
           [method |-> "getProductRowSum", statFunc |-> "sum",
            direction |-> <<ROW>>, indexed |-> TRUE]
      [] operation = OPERATIONS[7] ->
           [method |-> "getProductRowProd", statFunc |-> "prod",
            direction |-> <<ROW>>, indexed |-> TRUE]
      [] operation = OPERATIONS[8] ->
           [method |-> "getProductRowCumSum", statFunc |-> "cumsum",
            direction |-> <<ROW>>, indexed |-> FALSE]
      [] operation = OPERATIONS[9] ->
           [method |-> "getProductRowCumProd", statFunc |-> "cumprod",
            direction |-> <<ROW>>, indexed |-> FALSE]
      [] operation = OPERATIONS[10] ->
           [method |-> "getProductTotalMin", statFunc |-> "min",
            direction |-> <<>>, indexed |-> FALSE]
      [] operation = OPERATIONS[11] ->
           [method |-> "getProductTotalMax", statFunc |-> "max",
            direction |-> <<>>, indexed |-> FALSE]
      [] operation = OPERATIONS[12] ->
           [method |-> "getProductTotalMean", statFunc |-> "mean",
            direction |-> <<>>, indexed |-> FALSE]
      [] operation = OPERATIONS[13] ->
           [method |-> "getProductTotalMedian", statFunc |-> "median",
            direction |-> <<>>, indexed |-> FALSE]
      [] operation = OPERATIONS[14] ->
           [method |-> "getProductTotalSum", statFunc |-> "sum",
            direction |-> <<>>, indexed |-> FALSE]
      [] operation = OPERATIONS[15] ->
           [method |-> "getProductTotalProd", statFunc |-> "prod",
            direction |-> <<>>, indexed |-> FALSE]

\* mutant of IndexArgument: the number is passed as it was entered
IndexArgumentAsEntered(opEntryFieldInt) == opEntryFieldInt

\* the argument the dispatch passes for the entry n: opEntryFieldInt - 1
IndexArgument(opEntryFieldInt) == opEntryFieldInt - 1

\* What one click on Go! does, from the state of the window: the message
\* box it shows, the locals it has bound when it returns, and the call it
\* made on the object, if it came that far. The handler is followed step by
\* step, each step handing its locals to the next.

OpRowOrCol == IF opSelectComboBox \in OPS_ON_ROW THEN "Row" ELSE "Column"

\* the call on the object and the block to put out
GoResult(mA, mB, obj, made, out) ==
    [reached |-> IF out.raised = NoError THEN "output" ELSE "raise",
     message |-> NoMessage,
     matrixA |-> mA, matrixB |-> mB, matop |-> obj, call |-> made,
     raised  |-> out.raised, result |-> out.returned]

\* the dispatch on the text of the combo box
GoDispatch(opEntryFieldInt, mA, mB, obj, d, index) ==
    GoResult(mA, mB, obj,
             [op |-> d.method, statFunc |-> d.statFunc,
              direction |-> d.direction, args |-> index],
             IF d.method = "product" THEN Return(obj.product)
             ELSE IF d.indexed /\ ~opEntryField.visible
             THEN Raise([kind |-> "NameError"])
             ELSE GetProductStatistic(obj, d.statFunc, d.direction, index))

GoIndex(opEntryFieldInt, mA, mB, obj, d) ==
    GoDispatch(opEntryFieldInt, mA, mB, obj, d,
               IF d.indexed THEN <<IndexArgument(opEntryFieldInt)>> ELSE <<>>)

\* the test of the entry against the rows or columns of the product
GoRange(opEntryFieldInt, mA, mB, obj, upperOpLimit) ==
    IF opEntryField.visible
         /\ (opEntryFieldInt < 1 \/ upperOpLimit < opEntryFieldInt)
    THEN [reached |-> "range",
          message |-> Critical(<<"Invalid Operation", OpRowOrCol>>,
                               "out of bounds",
                               <<opEntryField.text, upperOpLimit>>),
          matrixA |-> mA, matrixB |-> mB, matop |-> obj]
    ELSE GoIndex(opEntryFieldInt, mA, mB, obj, Dispatch(opSelectComboBox))

\* mutant of GoBuilt: the limit is taken from the other axis
GoBuiltOtherAxis(opEntryFieldInt, mA, mB, obj) ==
    GoRange(opEntryFieldInt, mA, mB, obj,
            IF opSelectComboBox \in OPS_ON_ROW
            THEN ProductCols(obj) ELSE ProductRows(obj))

GoBuilt(opEntryFieldInt, mA, mB, obj) ==
    GoRange(opEntryFieldInt, mA, mB, obj,
            IF opSelectComboBox \in OPS_ON_ROW
            THEN ProductRows(obj) ELSE ProductCols(obj))

\* the construction of the object, inside try
GoConstruct(opEntryFieldInt, mA, mB, err) ==
    IF err # NoError
    THEN [reached |-> "matop",
          message |-> Critical("Invalid Matrices", "raised", err),
          matrixA |-> mA, matrixB |-> mB]
    ELSE GoBuilt(opEntryFieldInt, mA, mB, BuiltObject(nameLineEdit, mA, mB))

\* the two tables are read
GoReadB(opEntryFieldInt, mA, readB) ==
    IF readB.message # NoMessage
    THEN [reached |-> "matrixB", message |-> readB.message, matrixA |-> mA]
    ELSE GoConstruct(opEntryFieldInt, mA, readB.matrix,
                     InitError(mA, readB.matrix))

GoReadA(opEntryFieldInt, readA) ==
    IF readA.message # NoMessage
    THEN [reached |-> "matrixA", message |-> readA.message]
    ELSE GoReadB(opEntryFieldInt, readA.matrix,
                 GetMatrix(matrixBInputTable, "B"))

\* mutant of GoEntry: an entry that is no whole number is not refused
GoEntryTruncating(parsed) ==
    IF opEntryField.visible /\ opEntryField.text = EmptyText
    THEN [reached |-> "entry",
          message |-> Critical(<<"Invalid Operation", OpRowOrCol>>,
                               "not provided", <<>>)]
    ELSE IF opEntryField.visible /\ parsed.kind # "finite"
    THEN [reached |-> "entry",
          message |-> Critical(<<"Invalid Operation", OpRowOrCol>>,
                               "not a valid number", opEntryField.text)]
    ELSE GoReadA(Truncate(parsed), GetMatrix(matrixAInputTable, "A"))

\* the entry field is read when it is visible
GoEntry(parsed) ==
    IF opEntryField.visible /\ opEntryField.text = EmptyText
    THEN [reached |-> "entry",
          message |-> Critical(<<"Invalid Operation", OpRowOrCol>>,
                               "not provided", <<>>)]
    ELSE IF opEntryField.visible /\ parsed.kind # "finite"
    THEN [reached |-> "entry",
          message |-> Critical(<<"Invalid Operation", OpRowOrCol>>,
                               "not a valid number", opEntryField.text)]
    ELSE IF opEntryField.visible /\ parsed.den # 1
    THEN [reached |-> "entry",
          message |-> Critical(<<"Invalid Operation", OpRowOrCol>>,
                               "not a integer", opEntryField.text)]
    ELSE GoReadA(Truncate(parsed), GetMatrix(matrixAInputTable, "A"))

GoButtonClicked == GoEntry(ParseFloat(opEntryField.text))

\* the core is not driven by a caller of its own while the window runs
CoreIdle ==
    /\ name = ""
    /\ matrixA = NoResult
    /\ matrixB = NoResult
    /\ self = <<>>
    /\ matop = "unbound"
    /\ pc = "gui"
    /\ raised = NoError
    /\ returned = NoResult
    /\ call = NoCall
    /\ rejected = 0
    /\ previous = NoPrevious
    /\ dtype = "float64"

coreVars == <<name, matrixA, matrixB, self, matop, pc, call, raised, returned,
              rejected, previous, dtype>>

InitGui == CoreIdle /\ GuiInit

\* __goButtonClicked: the header and the three parts of an operation are
\* appended when the result is there, otherwise a message box is shown or
\* the error of the call leaves the handler
GoClicked(limit) ==
    /\ opCounter < limit
    /\ \E go \in {GoButtonClicked} :
           /\ click' = go
           /\ messagebox' = go.message
           /\ IF go.reached = "output"
              THEN /\ opCounter' = opCounter + 1
                   /\ outputTextBox' =
                        [visible |-> TRUE,
                         blocks  |-> Append(outputTextBox.blocks,
                            [counter   |-> opCounter + 1,
                             name      |-> nameLineEdit,
                             matrixA   |-> go.matrixA,
                             matrixB   |-> go.matrixB,
                             operation |-> opSelectComboBox,
                             result    |-> go.result])]
              ELSE UNCHANGED <<opCounter, outputTextBox>>
    /\ UNCHANGED <<opSelectComboBox, opEntryField, nameLineEdit,
                   matrixAInputTable, matrixBInputTable, coreVars,
                   sizeVars, randVars, outfile>>

goButtonClicked == GoClicked(MaxOperations)

\* mutant of SelectOperation: the entry field is shown for the row
\* operations only
SelectOperationRowsOnly(choices) ==
    \E k \in choices :
        /\ OPERATIONS[k] # opSelectComboBox
        /\ opSelectComboBox' = OPERATIONS[k]
        /\ opEntryField' =
              [text    |-> EmptyText,
               visible |-> OPERATIONS[k] \in OPS_ON_ROW,
               placeholder |->
                   IF OPERATIONS[k] \notin OPS_ON_ROW
                   THEN opEntryField.placeholder
                   ELSE "Enter a row..."]
        /\ messagebox' = NoMessage
        /\ click' = NoClick
        /\ UNCHANGED <<opCounter, nameLineEdit, matrixAInputTable,
                       matrixBInputTable, outputTextBox, coreVars,
                       sizeVars, randVars, outfile>>

\* the user picks another operation, one of the choices, and
\* __opSelectChanged shows or hides the entry field and clears it
SelectOperation(choices) ==
    \E k \in choices :
        /\ OPERATIONS[k] # opSelectComboBox
        /\ opSelectComboBox' = OPERATIONS[k]
        /\ opEntryField' =
              [text    |-> EmptyText,
               visible |-> OPERATIONS[k] \in OPS_TO_MAKE_ENTRY_VISIBLE,
               placeholder |->
                   IF OPERATIONS[k] \notin OPS_TO_MAKE_ENTRY_VISIBLE
                   THEN opEntryField.placeholder
                   ELSE IF OPERATIONS[k] \in OPS_ON_ROW
                   THEN "Enter a row..." ELSE "Enter a column..."]
        /\ messagebox' = NoMessage
        /\ click' = NoClick
        /\ UNCHANGED <<opCounter, nameLineEdit, matrixAInputTable,
                       matrixBInputTable, outputTextBox, coreVars,
                   sizeVars, randVars, outfile>>

opSelectChanged == SelectOperation(1..Len(OPERATIONS))

\* the texts typed into the entry field: numbers around the range of rows
\* and columns, and texts that are no whole number
EntryTexts ==
    {IntegerText(n) : n \in 0..4}
      \cup {EmptyText, <<"x">>, <<"1", ".", "5">>, <<"2", ".", "0">>,
            <<"3", "e", "0">>}

\* the user types into the entry field, which only a visible field allows
EditOpEntryField ==
    \E text \in EntryTexts :
        /\ opEntryField.visible
        /\ text # opEntryField.text
        /\ opEntryField' = [opEntryField EXCEPT !.text = text]
        /\ messagebox' = NoMessage
        /\ click' = NoClick
        /\ UNCHANGED <<opCounter, opSelectComboBox, nameLineEdit,
                       matrixAInputTable, matrixBInputTable, outputTextBox,
                       coreVars,
                   sizeVars, randVars, outfile>>

\* the number typed into cell n of a table, by the fill pattern
CellNumber(pattern, n) == ((n * n + n + n \div 4 + pattern) % 3) - 1

\* the cells of a table after the user has typed them in: a whole number in
\* every cell, or that with one cell left empty or holding a letter
TypedCells(table) ==
    LET numbers(pattern) ==
            [n \in 1..(table.rows * table.cols) |->
                IntegerText(CellNumber(pattern, n))]
    IN  {numbers(0), numbers(1),
         [numbers(0) EXCEPT ![2] = EmptyText],
         [numbers(1) EXCEPT ![2] = <<"x">>]}

\* the user types the cells of a table; taken here before the first
\* operation is put out
EditMatrixA ==
    \E cells \in TypedCells(matrixAInputTable) :
        /\ outputTextBox.blocks = <<>>
        /\ cells # matrixAInputTable.cells
        /\ matrixAInputTable' = [matrixAInputTable EXCEPT !.cells = cells]
        /\ messagebox' = NoMessage
        /\ click' = NoClick
        /\ UNCHANGED <<opCounter, opSelectComboBox, opEntryField,
                       nameLineEdit, matrixBInputTable, outputTextBox,
                       coreVars,
                   sizeVars, randVars, outfile>>

EditMatrixB ==
    \E cells \in TypedCells(matrixBInputTable) :
        /\ outputTextBox.blocks = <<>>
        /\ cells # matrixBInputTable.cells
        /\ matrixBInputTable' = [matrixBInputTable EXCEPT !.cells = cells]
        /\ messagebox' = NoMessage
        /\ click' = NoClick
        /\ UNCHANGED <<opCounter, opSelectComboBox, opEntryField,
                       nameLineEdit, matrixAInputTable, outputTextBox,
                       coreVars,
                   sizeVars, randVars, outfile>>

\* ----------------------------------------------------- the Set Size buttons

\* __validateSize(lineEdit, matrix, direction): the message it shows and the
\* size it returns (0 for None)
SizeChecked(text, matrix, direction, parsed) ==
    IF text = EmptyText
    THEN [message |-> Critical(<<"Invalid Size", direction>>, "not provided",
                               matrix),
          size |-> 0]
    ELSE IF parsed.kind # "finite"
    THEN [message |-> Critical(<<"Invalid Size", direction>>,
                               "not a valid number", <<text, matrix>>),
          size |-> 0]
    ELSE IF parsed.den # 1
    THEN [message |-> Critical(<<"Invalid Size", direction>>,
                               "not a integer", <<text, matrix>>),
          size |-> 0]
    ELSE IF Truncate(parsed) < 1 \/ 10 < Truncate(parsed)
    THEN [message |-> Critical(<<"Invalid Size", direction>>,
                               "outside valid range of [1,10]",
                               <<text, matrix>>),
          size |-> 0]
    ELSE [message |-> NoMessage, size |-> Truncate(parsed)]

\* mutant of ValidateSize: the size is not tested against the range [1,10]
ValidateSizeWithoutRange(text, matrix, direction) ==
    IF text = EmptyText \/ ParseFloat(text).kind # "finite"
         \/ ParseFloat(text).den # 1
    THEN SizeChecked(text, matrix, direction, ParseFloat(text))
    ELSE [message |-> NoMessage, size |-> Truncate(ParseFloat(text))]

ValidateSize(text, matrix, direction) ==
    SizeChecked(text, matrix, direction, ParseFloat(text))

\* mutant of SetSizeCols: the rows are set before the column size is
\* validated
SetSizeColsAfterRows(table, fields, rowNum, col) ==
    IF col.message # NoMessage
    THEN [reached |-> "colSize", message |-> col.message,
          fields  |-> [fields EXCEPT !.rowSize = IntegerText(rowNum)],
          table   |-> NewTable(rowNum, table.cols)]
    ELSE [reached |-> "resized", message |-> NoMessage,
          fields  |-> [rowSize |-> IntegerText(rowNum),
                       colSize |-> IntegerText(col.size)],
          table   |-> NewTable(rowNum, col.size)]

\* __matrixASetSizeClicked / __matrixBSetSizeClicked after the row size was
\* accepted: the text of the row field is rewritten, the column size is
\* validated, and the table is emptied and given its new size
SetSizeCols(table, fields, rowNum, col) ==
    IF col.message # NoMessage
    THEN [reached |-> "colSize", message |-> col.message,
          fields  |-> [fields EXCEPT !.rowSize = IntegerText(rowNum)],
          table   |-> table]
    ELSE [reached |-> "resized", message |-> NoMessage,
          fields  |-> [rowSize |-> IntegerText(rowNum),
                       colSize |-> IntegerText(col.size)],
          table   |-> NewTable(rowNum, col.size)]

SetSizeRows(table, fields, matrix, row) ==
    IF row.message # NoMessage
    THEN [reached |-> "rowSize", message |-> row.message,
          fields  |-> fields, table |-> table]
    ELSE SetSizeCols(table, fields, row.size,
                     ValidateSize(fields.colSize, matrix, "Col"))

SetSizeClicked(table, fields, matrix) ==
    SetSizeRows(table, fields, matrix,
                ValidateSize(fields.rowSize, matrix, "Row"))

matrixASetSizeClicked ==
    /\ \E set \in {SetSizeClicked(matrixAInputTable, matrixASizeCollapsable,
                                  "A")} :
           /\ matrixAInputTable' = set.table
           /\ matrixASizeCollapsable' = set.fields
           /\ messagebox' = set.message
           /\ click' = [reached |-> set.reached]
    /\ UNCHANGED <<opCounter, opSelectComboBox, opEntryField, nameLineEdit,
                   matrixBInputTable, outputTextBox, coreVars,
                   matrixBSizeCollapsable, randVars, outfile>>

matrixBSetSizeClicked ==
    /\ \E set \in {SetSizeClicked(matrixBInputTable, matrixBSizeCollapsable,
                                  "B")} :
           /\ matrixBInputTable' = set.table
           /\ matrixBSizeCollapsable' = set.fields
           /\ messagebox' = set.message
           /\ click' = [reached |-> set.reached]
    /\ UNCHANGED <<opCounter, opSelectComboBox, opEntryField, nameLineEdit,
                   matrixAInputTable, outputTextBox, coreVars,
                   matrixASizeCollapsable, randVars, outfile>>

\* ----------------------------------------------------- the Generate buttons

\* __validateRange(lineEdit, matrix, end, isInt): the message it shows and
\* the limit it returns, as a fraction and as the text str() gives it
RangeChecked(text, matrix, end, isInt, parsed) ==
    IF text = EmptyText
    THEN [message |-> Critical(<<"Invalid Range", end>>, "not provided",
                               matrix)]
    ELSE IF parsed.kind # "finite"
    THEN [message |-> Critical("Invalid {end} Range", "not a valid number",
                               <<end, text, matrix>>)]
    ELSE IF isInt /\ parsed.den # 1
    THEN [message |-> Critical("Invalid {end} Range", "not an integer",
                               <<end, text, matrix>>)]
    ELSE [message |-> NoMessage,
          limit   |-> IF isInt THEN [num |-> Truncate(parsed), den |-> 1]
                      ELSE [num |-> parsed.num, den |-> parsed.den],
          text    |-> IF isInt THEN IntegerText(Truncate(parsed))
                      ELSE FloatText(parsed)]

ValidateRange(text, matrix, end, isInt) ==
    RangeChecked(text, matrix, end, isInt, ParseFloat(text))

\* a < b for two limits
LimitLess(a, b) == a.num * b.den < b.num * a.den

\* the whole numbers the generator can give for a cell. np.random.randint
\* gives every integer from low up to high - 1. np.random.rand gives every
\* float u with 0 <= u < 1, so min + u * (max - min) goes from min towards
\* max and never is max, unless the two are equal; of these floats the
\* whole numbers are taken.
Draws(isInt, low, high) ==
    IF isInt
    THEN low.num..(high.num - 1)
    ELSE IF LimitLess(low, high)
    THEN {v \in (low.num \div low.den - 1)..(high.num \div high.den + 1) :
             low.num <= v * low.den /\ v * high.den < high.num}
    ELSE IF LimitLess(high, low)
    THEN {v \in (high.num \div high.den - 1)..(low.num \div low.den + 1) :
             high.num < v * high.den /\ v * low.den <= low.num}
    ELSE {v \in {low.num \div low.den} : v * low.den = low.num}

\* the v-th smallest element of a set of numbers, counted from 0
Nth(S, v) == CHOOSE x \in S : Cardinality({y \in S : y < x}) = v

\* str(matrix[row, col]) of the generated matrix, cell by cell in row-major
\* order: the state of the generator picks the numbers
Generated(count, isInt, draws, state) ==
    [n \in 1..count |->
        IF isInt
        THEN IntegerText(Nth(draws, (n * n + n + n \div 4 + state)
                                       % Cardinality(draws)))
        ELSE FloatText([num |-> Nth(draws, (n * n + n + n \div 4 + state)
                                              % Cardinality(draws)),
                        den |-> 1])]

\* __setMatrix(table, matrix): the text of every item is set
SetMatrix(table, texts) == [table EXCEPT !.cells = texts]

\* the matrix is generated and put into the table; np.random.randint raises
\* ValueError("low >= high") when min is not below max, and nothing in the
\* handler catches it
RandGenFill(table, fields, isInt, low, high, state) ==
    IF isInt /\ ~LimitLess(low, high)
    THEN [reached |-> "unhandled", message |-> NoMessage,
          raised  |-> NumpyValueError, fields |-> fields, table |-> table]
    ELSE [reached |-> "generated", message |-> NoMessage,
          raised  |-> NoError, fields |-> fields,
          table   |-> SetMatrix(table,
                         Generated(table.rows * table.cols, isInt,
                                   Draws(isInt, low, high), state))]

\* the maximum is validated and its text rewritten
RandGenMax(table, fields, isInt, low, max, state) ==
    IF max.message # NoMessage
    THEN [reached |-> "maxRange", message |-> max.message,
          raised  |-> NoError, fields |-> fields, table |-> table]
    ELSE RandGenFill(table, [fields EXCEPT !.maxRandRange = max.text],
                     isInt, low, max.limit, state)

\* the minimum is validated and its text rewritten
RandGenMin(table, fields, matrix, isInt, min, state) ==
    IF min.message # NoMessage
    THEN [reached |-> "minRange", message |-> min.message,
          raised  |-> NoError, fields |-> fields, table |-> table]
    ELSE RandGenMax(table, [fields EXCEPT !.minRandRange = min.text],
                    isInt, min.limit,
                    ValidateRange(fields.maxRandRange, matrix, "Max", isInt),
                    state)

\* __matrixARandGenClicked / __matrixBRandGenClicked
RandGenClicked(table, fields, matrix, state) ==
    RandGenMin(table, fields, matrix, fields.checkedId = 1,
               ValidateRange(fields.minRandRange, matrix, "Min",
                             fields.checkedId = 1),
               state)

\* the states of the random generator that are told apart
GeneratorStates == 0..1

matrixARandGenClicked ==
    /\ \E state \in GeneratorStates :
       \E gen \in {RandGenClicked(matrixAInputTable, matrixARandCollapsable,
                                  "A", state)} :
           /\ matrixAInputTable' = gen.table
           /\ matrixARandCollapsable' = gen.fields
           /\ messagebox' = gen.message
           /\ click' = [reached |-> gen.reached, raised |-> gen.raised]
    /\ UNCHANGED <<opCounter, opSelectComboBox, opEntryField, nameLineEdit,
                   matrixBInputTable, outputTextBox, coreVars, sizeVars,
                   matrixBRandCollapsable, outfile>>

matrixBRandGenClicked ==
    /\ \E state \in GeneratorStates :
       \E gen \in {RandGenClicked(matrixBInputTable, matrixBRandCollapsable,
                                  "B", state)} :
           /\ matrixBInputTable' = gen.table
           /\ matrixBRandCollapsable' = gen.fields
           /\ messagebox' = gen.message
           /\ click' = [reached |-> gen.reached, raised |-> gen.raised]
    /\ UNCHANGED <<opCounter, opSelectComboBox, opEntryField, nameLineEdit,
                   matrixAInputTable, outputTextBox, coreVars, sizeVars,
                   matrixARandCollapsable, outfile>>

\* ------------------------------------------------ Clear All, Save and Load

\* __clearAll: both tables get empty items at the size they have, the
\* output text is set to '' and the counter to zero
\* mutant of clearAll: the counter is left as it is
clearAllKeepingCounter ==
    /\ matrixAInputTable' =
          NewTable(matrixAInputTable.rows, matrixAInputTable.cols)
    /\ matrixBInputTable' =
          NewTable(matrixBInputTable.rows, matrixBInputTable.cols)
    /\ outputTextBox' = [outputTextBox EXCEPT !.blocks = <<>>]
    /\ opCounter' = opCounter
    /\ messagebox' = NoMessage
    /\ click' = [reached |-> "cleared"]
    /\ UNCHANGED <<opSelectComboBox, opEntryField, nameLineEdit, coreVars,
                   sizeVars, randVars, outfile>>

clearAll ==
    /\ matrixAInputTable' =
          NewTable(matrixAInputTable.rows, matrixAInputTable.cols)
    /\ matrixBInputTable' =
          NewTable(matrixBInputTable.rows, matrixBInputTable.cols)
    /\ outputTextBox' = [outputTextBox EXCEPT !.blocks = <<>>]
    /\ opCounter' = 0
    /\ messagebox' = NoMessage
    /\ click' = [reached |-> "cleared"]
    /\ UNCHANGED <<opSelectComboBox, opEntryField, nameLineEdit, coreVars,
                   sizeVars, randVars, outfile>>

\* __save with a file chosen in the dialog: the text of the output is
\* written to it
save ==
    /\ outfile' = [written |-> TRUE, blocks |-> outputTextBox.blocks]
    /\ messagebox' = NoMessage
    /\ click' = [reached |-> "saved"]
    /\ UNCHANGED <<opCounter, opSelectComboBox, opEntryField, nameLineEdit,
                   matrixAInputTable, matrixBInputTable, outputTextBox,
                   coreVars, sizeVars, randVars>>

\* the line of the header that carries the counter and the run name:
\* f'=  Operation {self.__opCounter}', then ': ' + name + ' ' if there is one
HeaderText(block) ==
    <<"=", " ", " ", "O", "p", "e", "r", "a", "t", "i", "o", "n", " ">>
      \o DigitsText(block.counter)
      \o (IF block.name # EmptyText
          THEN <<":", " ">> \o block.name \o <<" ">> ELSE <<>>)

\* the pattern of re.findall up to its group: 'Operation '
OperationWord == <<"O", "p", "e", "r", "a", "t", "i", "o", "n", " ">>

\* the pattern matches at position i of the text: the word, then a digit
MatchesAt(text, i) ==
    /\ i + Len(OperationWord) <= Len(text)
    /\ SubSeq(text, i, i + Len(OperationWord) - 1) = OperationWord
    /\ IsDigit(text[i + Len(OperationWord)])

RECURSIVE DigitsEnd(_, _)
\* the last position of the run of digits that starts at position i
DigitsEnd(text, i) ==
    IF i < Len(text) /\ IsDigit(text[i + 1]) THEN DigitsEnd(text, i + 1)
    ELSE i

RECURSIVE FindAll(_, _)
\* re.findall('Operation (?P<counter>\d+)', text) from position i on, each
\* match already through int(): matches are taken from left to right and
\* do not overlap, and \d+ takes every digit that follows
FindAll(text, i) ==
    IF i > Len(text) THEN <<>>
    ELSE IF MatchesAt(text, i)
    THEN <<DigitsValue(SubSeq(text, i + Len(OperationWord),
                              DigitsEnd(text, i + Len(OperationWord))))>>
           \o FindAll(text, DigitsEnd(text, i + Len(OperationWord)) + 1)
    ELSE FindAll(text, i + 1)

RECURSIVE ContentMatches(_, _)
\* the matches in the whole content, block after block from block k on. Of
\* the text of a block only the header line can hold the word: the lines of
\* '=', 'Matrix A:', 'Matrix B:', the printed arrays and the name of the
\* operation with ' Result:' do not.
ContentMatches(blocks, k) ==
    IF k > Len(blocks) THEN <<>>
    ELSE FindAll(HeaderText(blocks[k]), 1) \o ContentMatches(blocks, k + 1)

\* max(map(int, matches)) if matches else 0
MaxOrZero(matches) ==
    IF matches = <<>> THEN 0
    ELSE CHOOSE m \in {matches[n] : n \in 1..Len(matches)} :
             \A n \in 1..Len(matches) : matches[n] <= m

\* __load(filename) of a file Save has written: the content becomes the
\* text of the output, the counter is taken from the content and the output
\* is shown
load ==
    /\ outfile.written
    /\ outputTextBox' = [visible |-> TRUE, blocks |-> outfile.blocks]
    /\ opCounter' = MaxOrZero(ContentMatches(outfile.blocks, 1))
    /\ messagebox' = NoMessage
    /\ click' = [reached |-> "loaded"]
    /\ UNCHANGED <<opSelectComboBox, opEntryField, nameLineEdit,
                   matrixAInputTable, matrixBInputTable, coreVars,
                   sizeVars, randVars, outfile>>

\* ------------------------------------------------------ what the user types

\* run names: none, a word, and one that reads like a header
NameTexts ==
    {EmptyText, <<"R", "u", "n">>,
     <<"O", "p", "e", "r", "a", "t", "i", "o", "n", " ", "7">>}

\* the user types the run name
EditName ==
    \E text \in NameTexts :
        /\ text # nameLineEdit
        /\ nameLineEdit' = text
        /\ messagebox' = NoMessage
        /\ click' = NoClick
        /\ UNCHANGED <<opCounter, opSelectComboBox, opEntryField,
                       matrixAInputTable, matrixBInputTable, outputTextBox,
                       coreVars, sizeVars, randVars, outfile>>

\* the row and column sizes typed before a click on Set Size: every way
\* the row size can be refused, every way the column size can be refused
\* after a good row size, and sizes that are accepted
SizeEntries ==
    {[rowSize |-> r, colSize |-> <<"3">>] :
        r \in {EmptyText, <<"x">>, <<"1", ".", "5">>, <<"0">>, <<"1", "1">>}}
      \cup
    {[rowSize |-> <<"2">>, colSize |-> c] :
        c \in {EmptyText, <<"x">>, <<"2", ".", "5">>, <<"0">>, <<"1", "1">>}}
      \cup
    {[rowSize |-> <<"2">>,      colSize |-> <<"3">>],
     [rowSize |-> <<"3">>,      colSize |-> <<"2", ".", "0">>],
     [rowSize |-> <<"1", "0">>, colSize |-> <<"1">>]}

\* the user types the sizes of matrix A or of matrix B
TypeSizeA(entries) ==
    \E entry \in entries :
        /\ entry # matrixASizeCollapsable
        /\ matrixASizeCollapsable' = entry
        /\ messagebox' = NoMessage
        /\ click' = NoClick
        /\ UNCHANGED <<opCounter, opSelectComboBox, opEntryField,
                       nameLineEdit, matrixAInputTable, matrixBInputTable,
                       outputTextBox, coreVars, matrixBSizeCollapsable,
                       randVars, outfile>>

EditSizeA == TypeSizeA(SizeEntries)

TypeSizeB(entries) ==
    \E entry \in entries :
        /\ entry # matrixBSizeCollapsable
        /\ matrixBSizeCollapsable' = entry
        /\ messagebox' = NoMessage
        /\ click' = NoClick
        /\ UNCHANGED <<opCounter, opSelectComboBox, opEntryField,
                       nameLineEdit, matrixAInputTable, matrixBInputTable,
                       outputTextBox, coreVars, matrixASizeCollapsable,
                       randVars, outfile>>

EditSizeB == TypeSizeB(SizeEntries)

\* the range and the type set before a click on Generate. The minimum is
\* typed as a whole number, so that every range that is accepted holds a
\* whole number.
RangeEntries ==
    {[minRandRange |-> lo, maxRandRange |-> hi, checkedId |-> id] :
        lo \in {EmptyText, <<"x">>, <<"n", "a", "n">>, <<"-", "1">>,
                <<"0", ".", "0">>, <<"2">>},
        hi \in {EmptyText, <<"x">>, <<"i", "n", "f">>, <<"1", ".", "5">>,
                <<"-", "1">>, <<"2">>, <<"1", ".", "0">>},
        id \in {0, 1}}

TypeRangeA(entries) ==
    \E entry \in entries :
        /\ entry # matrixARandCollapsable
        /\ matrixARandCollapsable' = entry
        /\ messagebox' = NoMessage
        /\ click' = NoClick
        /\ UNCHANGED <<opCounter, opSelectComboBox, opEntryField,
                       nameLineEdit, matrixAInputTable, matrixBInputTable,
                       outputTextBox, coreVars, sizeVars,
                       matrixBRandCollapsable, outfile>>

EditRangeA == TypeRangeA(RangeEntries)

TypeRangeB(entries) ==
    \E entry \in entries :
        /\ entry # matrixBRandCollapsable
        /\ matrixBRandCollapsable' = entry
        /\ messagebox' = NoMessage
        /\ click' = NoClick
        /\ UNCHANGED <<opCounter, opSelectComboBox, opEntryField,
                       nameLineEdit, matrixAInputTable, matrixBInputTable,
                       outputTextBox, coreVars, sizeVars,
                       matrixARandCollapsable, outfile>>

EditRangeB == TypeRangeB(RangeEntries)

NextGui ==
    \/ goButtonClicked
    \/ opSelectChanged
    \/ EditOpEntryField
    \/ EditMatrixA
    \/ EditMatrixB

SpecGui == InitGui /\ [][NextGui]_vars

\* a few of the sizes typed: two that are accepted and leave the table
\* with fewer rows or fewer columns, a row size and a column size refused
FewSizeEntries ==
    {[rowSize |-> <<"2">>, colSize |-> <<"3">>],
     [rowSize |-> <<"3">>, colSize |-> <<"2">>],
     [rowSize |-> <<"0">>, colSize |-> <<"3">>],
     [rowSize |-> <<"2">>, colSize |-> <<"1", "1">>]}

\* the Set Size buttons with every kind of size typed for matrix A, the
\* tables filled by Generate and cleared
NextSetSize ==
    \/ EditSizeA
    \/ TypeSizeB(FewSizeEntries)
    \/ matrixASetSizeClicked
    \/ matrixBSetSizeClicked
    \/ matrixARandGenClicked
    \/ matrixBRandGenClicked
    \/ clearAll

SpecSetSize == InitGui /\ [][NextSetSize]_vars

\* the window with its tables resized, filled by Generate, read by Go and
\* cleared
NextSize ==
    \/ TypeSizeA(FewSizeEntries)
    \/ TypeSizeB(FewSizeEntries)
    \/ matrixASetSizeClicked
    \/ matrixBSetSizeClicked
    \/ matrixARandGenClicked
    \/ matrixBRandGenClicked
    \/ clearAll
    \/ goButtonClicked

SpecSize == InitGui /\ [][NextSize]_vars

\* the Generate buttons with every kind of range typed for matrix A
NextGenerate ==
    \/ EditRangeA
    \/ matrixARandGenClicked
    \/ matrixBRandGenClicked
    \/ clearAll

SpecGenerate == InitGui /\ [][NextGenerate]_vars

\* the operations picked where the tables change size as well: the sum of
\* a column, a cumulative product, the product of a row and the minimum,
\* next to Multiply that the window starts with
FewOperations == {2, 5, 7, 10}

\* the sizes typed for table B there: fewer rows, fewer columns
TwoSizeEntries ==
    {[rowSize |-> <<"2">>, colSize |-> <<"3">>],
     [rowSize |-> <<"3">>, colSize |-> <<"2">>]}

\* Go with every kind of entry, of cell and of shape: the operation and the
\* entry are chosen, the cells typed, table B resized and all cleared
NextGo ==
    \/ goButtonClicked
    \/ SelectOperation(FewOperations)
    \/ EditOpEntryField
    \/ EditMatrixA
    \/ EditMatrixB
    \/ TypeSizeB(TwoSizeEntries)
    \/ matrixBSetSizeClicked
    \/ clearAll

SpecGo == InitGui /\ [][NextGo]_vars

\* The window with several runs: the user types the tables and the run
\* name, picks the product or a column sum, clicks Go up to MaxRuns times
\* and clears everything; nothing is loaded.

TwoOperations == {1, 2}

NextRuns ==
    \/ GoClicked(MaxRuns)
    \/ SelectOperation(TwoOperations)
    \/ EditName
    \/ EditMatrixA
    \/ EditMatrixB
    \/ clearAll

SpecRuns == InitGui /\ [][NextRuns]_vars

\* The window with a file: the user types the tables and the run name,
\* clicks Go, saves the output, clears everything and loads the file again.

NextFile ==
    \/ goButtonClicked
    \/ EditName
    \/ EditMatrixA
    \/ EditMatrixB
    \/ clearAll
    \/ save
    \/ load

SpecFile == InitGui /\ [][NextFile]_vars

\* ------------------------------------------------------ checked properties

\* a matrix of the data model: 2-D, every axis between 1 and MaxSize
IsMatrix(m) ==
    /\ Len(m.shape) = 2
    /\ \A d \in 1..2 : m.shape[d] >= 1 /\ m.shape[d] <= MaxSize

\* an array construction must refuse: not 2-D, no elements, or an axis
\* longer than MaxSize
IsBad(m) ==
    \/ Len(m.shape) # 2
    \/ \E d \in 1..Len(m.shape) : m.shape[d] = 0
    \/ \E d \in 1..Len(m.shape) : m.shape[d] > MaxSize

\* the constructor has run
Constructed == pc # "start"

\* the kinds of MatrixOperationError the constructor raises
ConstructionErrors == {"dims", "empty", "toolarge", "mismatch"}

\* C1: for matrices A (r x k) and B (k x c) with r, k, c in 1..10, the
\* constructor raises nothing, leaves valid = TRUE and the product has shape
\* (r, c).
C1_ValidPairConstructs ==
    (/\ Constructed
     /\ IsMatrix(matrixA)
     /\ IsMatrix(matrixB)
     /\ matrixA.shape[2] = matrixB.shape[1])
    => /\ pc # "failed"
       /\ matop = "bound"
       /\ self.valid = TRUE
       /\ ProductShape(self) = <<matrixA.shape[1], matrixB.shape[2]>>
       /\ ProductRows(self) = matrixA.shape[1]
       /\ ProductCols(self) = matrixB.shape[2]
       /\ Len(self.product.data) = matrixA.shape[1] * matrixB.shape[2]

\* both inputs have the boundary size MaxSize x MaxSize and the object is built
C1_Witness ==
    /\ Constructed
    /\ matrixA.shape = <<MaxSize, MaxSize>>
    /\ matrixB.shape = <<MaxSize, MaxSize>>
    /\ matop = "bound"
    /\ ProductShape(self) = <<MaxSize, MaxSize>>

RECURSIVE SigmaProducts(_, _, _, _, _)
\* the sum over k in K of A[i][k] * B[k][j], with 0-based i, j, k
SigmaProducts(mA, mB, i, j, K) ==
    IF K = {} THEN 0
    ELSE LET k == CHOOSE x \in K : TRUE
         IN  mA.data[i * mA.shape[2] + k + 1] * mB.data[k * mB.shape[2] + j + 1]
             + SigmaProducts(mA, mB, i, j, K \ {k})

\* the constructor has just returned an object to the caller
JustConstructed == pc = "returned" /\ call.op = "__init__"

\* C2: after a successful construction product[i][j] is the sum over k of
\* A[i][k] * B[k][j], for every row i of A and column j of B.
C2_ProductIsMatrixProduct ==
    JustConstructed
    => \A i \in 0..(matrixA.shape[1] - 1), j \in 0..(matrixB.shape[2] - 1) :
           self.product.data[i * matrixB.shape[2] + j + 1]
             = SigmaProducts(matrixA, matrixB, i, j,
                             0..(matrixA.shape[2] - 1))

\* a product of two dense 2 x 2 inputs that is not symmetric has been built
C2_Witness ==
    /\ JustConstructed
    /\ matrixA.shape = <<2, 2>>
    /\ matrixB.shape = <<2, 2>>
    /\ At(self.product, 0, 1) # At(self.product, 1, 0)
    /\ At(self.product, 0, 0) # 0

\* C3: when A and B are each a valid matrix and the columns of A differ from
\* the rows of B, the constructor raises the MatrixOperationError about the
\* sizes and no object reaches the caller.
C3_IncompatibleShapesRejected ==
    (/\ Constructed
     /\ IsMatrix(matrixA)
     /\ IsMatrix(matrixB)
     /\ matrixA.shape[2] # matrixB.shape[1])
    => /\ pc = "failed"
       /\ matop = "unbound"
       /\ raised = MismatchError(matrixA.shape[2], matrixB.shape[1])

\* a 2 x 2 and a 1 x 2 matrix have been refused
C3_Witness ==
    /\ pc = "failed"
    /\ matrixA.shape = <<2, 2>>
    /\ matrixB.shape = <<1, 2>>
    /\ raised.kind = "mismatch"

\* C4: when either input is not 2-D, has no elements or has an axis longer
\* than 10, the constructor raises a MatrixOperationError, whatever the other
\* input is.
C4_BadMatrixRejected ==
    (Constructed /\ (IsBad(matrixA) \/ IsBad(matrixB)))
    => /\ pc = "failed"
       /\ matop = "unbound"
       /\ raised.kind \in {"dims", "empty", "toolarge"}

\* the second input has only its second axis too long, and the first input
\* is a matrix whose columns match its rows
C4_Witness ==
    /\ pc = "failed"
    /\ IsMatrix(matrixA)
    /\ matrixB.shape = <<2, MaxSize + 1>>
    /\ matrixA.shape[2] = 2
    /\ raised.kind = "toolarge"

\* C5: every check on matrixA comes before any check on matrixB, and the
\* compatibility check comes last: with both inputs bad the error names the
\* first, with only the second bad the error names the second (also when the
\* shapes are incompatible), and the incompatibility error needs both inputs
\* to have passed.
C5_FirstMatrixCheckedFirst ==
    Constructed
    => /\ IsBad(matrixA) => raised.kind # "mismatch" /\ raised.order = "first"
       /\ (~IsBad(matrixA) /\ IsBad(matrixB))
             => raised.kind # "mismatch" /\ raised.order = "second"
       /\ raised.kind = "mismatch" => ~IsBad(matrixA) /\ ~IsBad(matrixB)

\* both inputs are bad 2-D arrays and the error is about the first
C5_Witness ==
    /\ pc = "failed"
    /\ matrixA.shape = <<MaxSize + 1, 2>>
    /\ matrixB.shape = <<0, 1>>
    /\ raised.order = "first"

\* C6: within one matrix the checks run dimensionality, emptiness, size
\* bound: an array that is not 2-D is reported as such even when it is empty
\* or too long, and an empty 2-D array is reported as empty even when an axis
\* is longer than 10.
C6_ChecksInOrder ==
    (pc = "failed" /\ raised.kind \in {"dims", "empty", "toolarge"})
    => LET m == IF raised.order = "first" THEN matrixA ELSE matrixB
       IN  /\ Len(m.shape) # 2
                => raised = DimsError(raised.order, Len(m.shape))
           /\ (Len(m.shape) = 2 /\ \E d \in 1..2 : m.shape[d] = 0)
                => raised = EmptyError(raised.order)
           /\ raised.kind = "toolarge"
                => /\ Len(m.shape) = 2
                   /\ \A d \in 1..2 : m.shape[d] # 0

\* the first input has shape 0 x 11 and is reported as empty
C6_Witness ==
    /\ pc = "failed"
    /\ matrixA.shape = <<0, MaxSize + 1>>
    /\ raised = EmptyError("first")

\* one of the fourteen statistic methods has been called
IsQuery(c) == c.op \notin {"none", "__init__"}

\* C7: a construction that raised has stored no name, no matrix and no
\* product, its valid flag is FALSE, the caller holds no object, and no
\* statistic query runs on an object whose valid flag is FALSE.
C7_FailedConstructionLeavesNothing ==
    /\ pc = "failed"
         => /\ raised # NoError
            /\ DOMAIN self = {"valid"}
            /\ self.valid = FALSE
            /\ matop = "unbound"
    /\ IsQuery(call) => pc # "failed" /\ matop = "bound" /\ self.valid = TRUE

\* a construction with a name and two non-empty 2-D inputs has failed
C7_Witness ==
    /\ pc = "failed"
    /\ name # ""
    /\ matrixA.shape = <<2, 2>>
    /\ matrixB.shape = <<1, 1>>
    /\ self = [valid |-> FALSE]

RECURSIVE SumOver(_, _)
\* the sum of the values f[x] for x in S
SumOver(f, S) ==
    IF S = {} THEN 0
    ELSE LET x == CHOOSE y \in S : TRUE IN f[x] + SumOver(f, S \ {x})

RECURSIVE ProductOver(_, _)
\* the product of the values f[x] for x in S
ProductOver(f, S) ==
    IF S = {} THEN 1
    ELSE LET x == CHOOSE y \in S : TRUE IN f[x] * ProductOver(f, S \ {x})

\* the 0-based row and column numbers of the product
RowNumbers == 0..(self.product.shape[1] - 1)
ColNumbers == 0..(self.product.shape[2] - 1)

\* column c and row r of the product, as functions of the other coordinate
ColumnOfProduct(c) ==
    [r \in RowNumbers |-> self.product.data[r * self.product.shape[2] + c + 1]]
RowOfProduct(r) ==
    [c \in ColNumbers |-> self.product.data[r * self.product.shape[2] + c + 1]]

ColumnQueries == {"getProductColSum", "getProductColProd"}
RowQueries == {"getProductRowSum", "getProductRowProd"}

\* a single-row or single-column query has just come back
IndexedQueryDone ==
    pc = "returned" /\ call.op \in ColumnQueries \cup RowQueries

\* C8: with an in-range index i, getProductColSum(i) and getProductColProd(i)
\* return the sum and the product of column i of the product, and
\* getProductRowSum(i) and getProductRowProd(i) those of row i.
C8_SingleLineStatistics ==
    IndexedQueryDone
    => LET i == call.args[1]
       IN  /\ (call.op = "getProductColSum" /\ i \in ColNumbers)
                => /\ raised = NoError
                   /\ returned = Scalar(SumOver(ColumnOfProduct(i), RowNumbers))
           /\ (call.op = "getProductColProd" /\ i \in ColNumbers)
                => /\ raised = NoError
                   /\ returned
                        = Scalar(ProductOver(ColumnOfProduct(i), RowNumbers))
           /\ (call.op = "getProductRowSum" /\ i \in RowNumbers)
                => /\ raised = NoError
                   /\ returned = Scalar(SumOver(RowOfProduct(i), ColNumbers))
           /\ (call.op = "getProductRowProd" /\ i \in RowNumbers)
                => /\ raised = NoError
                   /\ returned
                        = Scalar(ProductOver(RowOfProduct(i), ColNumbers))

\* getProductColSum(0) has returned on a 2 x 2 product whose column 0 and
\* row 0 have different sums
C8_Witness ==
    /\ IndexedQueryDone
    /\ call.op = "getProductColSum"
    /\ call.args = <<0>>
    /\ raised = NoError
    /\ ProductShape(self) = <<2, 2>>
    /\ SumOver(ColumnOfProduct(0), RowNumbers)
         # SumOver(RowOfProduct(0), ColNumbers)

\* C9: a single-row or single-column query raises MatrixOperationError if and
\* only if the index is negative or at least the bound (productRows for a row
\* query, productCols for a column query); a rejected query returns nothing
\* and an accepted one returns a scalar.
C9_IndexBounds ==
    IndexedQueryDone
    => LET i     == call.args[1]
           bound == IF call.op \in ColumnQueries
                    THEN self.product.shape[2]
                    ELSE self.product.shape[1]
           error == IF call.op \in ColumnQueries
                    THEN ColIndexError(i, bound)
                    ELSE RowIndexError(i, bound)
       IN  /\ (i < 0 \/ i >= bound) => raised = error /\ returned = NoResult
           /\ (0 <= i /\ i < bound)
                => raised = NoError /\ returned.shape = <<>>
                                    /\ Len(returned.data) = 1

\* getProductRowProd(-1) has been rejected on a product with several rows
C9_Witness ==
    /\ IndexedQueryDone
    /\ call.op = "getProductRowProd"
    /\ call.args = <<-1>>
    /\ self.product.shape[1] > 1
    /\ raised.kind = "rowindex"
    /\ returned = NoResult

\* C10: rejected queries leave the object as it was built (valid, name,
\* matrixA, matrixB, product), and a query that then returns gives what it
\* gives on a freshly built object.
C10_RejectionLeavesObjectUsable ==
    rejected > 0
    => LET fresh == BuiltObject(name, matrixA, matrixB)
       IN  /\ matop = "bound"
           /\ self = fresh
           /\ (pc = "returned" /\ raised = NoError)
                => returned = GetProductStatistic(fresh, call.statFunc,
                                  call.direction, call.args).returned

\* after MaxRejected rejected queries an in-range column query has returned
C10_Witness ==
    /\ rejected = MaxRejected
    /\ rejected >= 2
    /\ pc = "returned"
    /\ call.op = "getProductColProd"
    /\ raised = NoError
    /\ returned # NoResult

\* C11: after any sequence of the fourteen getProduct* calls the object's
\* name, matrixA, matrixB, product, productShape and valid are what the
\* constructor made them, and a query asked twice in a row gives the same
\* outcome both times.
C11_QueriesArePureReads ==
    matop = "bound"
    => /\ self = BuiltObject(name, matrixA, matrixB)
       /\ self.valid = TRUE
       /\ ProductShape(self) = <<matrixA.shape[1], matrixB.shape[2]>>
       /\ (pc = "returned" /\ IsQuery(call) /\ previous.call = call)
            => raised = previous.raised /\ returned = previous.returned

\* getProductColCumProd() has returned twice in a row
C11_Witness ==
    /\ pc = "returned"
    /\ call.op = "getProductColCumProd"
    /\ previous.call = call
    /\ raised = NoError
    /\ returned.shape = ProductShape(self)

\* a cumulative query has just come back
CumulativeQueryDone ==
    /\ pc = "returned"
    /\ call.op \in {"getProductColCumSum", "getProductColCumProd",
                    "getProductRowCumSum", "getProductRowCumProd"}

\* element [i][j] of the array just returned
ReturnedAt(i, j) == returned.data[i * returned.shape[2] + j + 1]

\* C12: the cumulative queries return an array of the shape of the product:
\* for the column queries element [i][j] is the sum (the product) of
\* product[0..i][j], for the row queries that of product[i][0..j].
C12_CumulativeStatistics ==
    CumulativeQueryDone
    => /\ raised = NoError
       /\ returned.shape = ProductShape(self)
       /\ Len(returned.data) = Len(self.product.data)
       /\ \A i \in RowNumbers, j \in ColNumbers :
            /\ call.op = "getProductColCumSum"
                 => ReturnedAt(i, j) = SumOver(ColumnOfProduct(j), 0..i)
            /\ call.op = "getProductColCumProd"
                 => ReturnedAt(i, j) = ProductOver(ColumnOfProduct(j), 0..i)
            /\ call.op = "getProductRowCumSum"
                 => ReturnedAt(i, j) = SumOver(RowOfProduct(i), 0..j)
            /\ call.op = "getProductRowCumProd"
                 => ReturnedAt(i, j) = ProductOver(RowOfProduct(i), 0..j)

\* getProductColCumSum() has returned for a 2 x 2 product: its second row
\* has grown by the first, its first row is that of the product
C12_Witness ==
    /\ CumulativeQueryDone
    /\ call.op = "getProductColCumSum"
    /\ ProductShape(self) = <<2, 2>>
    /\ ReturnedAt(0, 1) = At(self.product, 0, 1)
    /\ ReturnedAt(1, 0) # At(self.product, 1, 0)
    /\ ReturnedAt(1, 0) # At(self.product, 1, 0) + At(self.product, 1, 1)

\* the entries of the product, by their position in row-major order
Positions == 1..Len(self.product.data)

\* the sums and the products of the rows of the product
RowSums == [r \in RowNumbers |-> SumOver(RowOfProduct(r), ColNumbers)]
RowProducts == [r \in RowNumbers |-> ProductOver(RowOfProduct(r), ColNumbers)]

TotalQueries ==
    {"getProductTotalSum", "getProductTotalProd", "getProductTotalMin",
     "getProductTotalMax", "getProductTotalMean"}

\* C13: the whole-matrix queries return one scalar over all the entries of
\* the product: their sum, their product, the least, the greatest, and the
\* arithmetic mean (the sum divided by the number of entries).
C13_WholeMatrixScalars ==
    (pc = "returned" /\ call.op \in TotalQueries)
    => /\ raised = NoError
       /\ returned.shape = <<>>
       /\ Len(returned.data) = 1
       /\ call.op = "getProductTotalSum"
            => returned.data[1] = SumOver(RowSums, RowNumbers)
       /\ call.op = "getProductTotalProd"
            => returned.data[1] = ProductOver(RowProducts, RowNumbers)
       /\ call.op = "getProductTotalMin"
            => /\ \E n \in Positions : self.product.data[n] = returned.data[1]
               /\ \A n \in Positions : returned.data[1] <= self.product.data[n]
       /\ call.op = "getProductTotalMax"
            => /\ \E n \in Positions : self.product.data[n] = returned.data[1]
               /\ \A n \in Positions : returned.data[1] >= self.product.data[n]
       /\ call.op = "getProductTotalMean"
            => /\ returned.data[1].den > 0
               /\ returned.data[1].num * Len(self.product.data)
                    = returned.data[1].den * SumOver(RowSums, RowNumbers)

\* getProductTotalMin() has returned an entry that is not the greatest
C13_Witness ==
    /\ pc = "returned"
    /\ call.op = "getProductTotalMin"
    /\ raised = NoError
    /\ \E n \in Positions : returned.data[1] < self.product.data[n]

\* the entries of the product that stand at position k (from 1) when the
\* entries are put in ascending order
EntriesOfRank(k) ==
    {self.product.data[n] : n \in
        {m \in Positions :
            /\ Cardinality({q \in Positions :
                   self.product.data[q] < self.product.data[m]}) < k
            /\ Cardinality({q \in Positions :
                   self.product.data[q] > self.product.data[m]})
                 <= Len(self.product.data) - k}}

\* C14: getProductTotalMedian() returns the middle entry of the sorted
\* entries of the product when their number is odd, and the average of the
\* two middle entries when it is even.
C14_Median ==
    (pc = "returned" /\ call.op = "getProductTotalMedian")
    => LET n == Len(self.product.data)
           m == returned.data[1]
       IN  /\ raised = NoError
           /\ returned.shape = <<>>
           /\ m.den > 0
           /\ n % 2 = 1
                => \E x \in EntriesOfRank((n + 1) \div 2) : m.num = m.den * x
           /\ n % 2 = 0
                => \E a \in EntriesOfRank(n \div 2) :
                     \E b \in EntriesOfRank(n \div 2 + 1) :
                        2 * m.num = m.den * (a + b)

\* getProductTotalMedian() has returned for an even number of entries whose
\* two middle entries differ
C14_Witness ==
    /\ pc = "returned"
    /\ call.op = "getProductTotalMedian"
    /\ Len(self.product.data) % 2 = 0
    /\ EntriesOfRank(Len(self.product.data) \div 2)
         # EntriesOfRank(Len(self.product.data) \div 2 + 1)

\* getProductTotalMedian() has returned for an odd number of entries, at
\* least three, that are not all equal
C14_OddCase ==
    /\ pc = "returned"
    /\ call.op = "getProductTotalMedian"
    /\ Len(self.product.data) % 2 = 1
    /\ Len(self.product.data) >= 3
    /\ EntriesOfRank(1) # EntriesOfRank(Len(self.product.data))

\* the sums and the products of the columns of the product
ColSums == [c \in ColNumbers |-> SumOver(ColumnOfProduct(c), RowNumbers)]
ColProducts ==
    [c \in ColNumbers |-> ProductOver(ColumnOfProduct(c), RowNumbers)]

\* C16: np.sum or np.prod asked for with an axis and no index returns a
\* one-dimensional array: for the column axis productCols entries, entry j
\* the sum (product) of column j; for the row axis productRows entries,
\* entry i the sum (product) of row i.
C16_PerLineAggregates ==
    (pc = "returned" /\ call.op = "__getProductStatistic"
       /\ call.statFunc \in {"sum", "prod"} /\ call.args = <<>>)
    => /\ raised = NoError
       /\ Len(returned.shape) = 1
       /\ Len(returned.data) = returned.shape[1]
       /\ call.direction = <<COL>>
            => /\ returned.shape[1] = ProductCols(self)
               /\ \A j \in ColNumbers :
                    returned.data[j + 1] =
                        IF call.statFunc = "sum" THEN ColSums[j]
                        ELSE ColProducts[j]
       /\ call.direction = <<ROW>>
            => /\ returned.shape[1] = ProductRows(self)
               /\ \A i \in RowNumbers :
                    returned.data[i + 1] =
                        IF call.statFunc = "sum" THEN RowSums[i]
                        ELSE RowProducts[i]

\* the sums of the columns of a product with more columns than rows have
\* come back, and they are not all the same
C16_Witness ==
    /\ pc = "returned"
    /\ call.op = "__getProductStatistic"
    /\ call.statFunc = "sum"
    /\ call.direction = <<COL>>
    /\ ProductCols(self) > ProductRows(self)
    /\ ProductRows(self) > 1
    /\ returned.shape = <<ProductCols(self)>>
    /\ \E j \in ColNumbers : returned.data[j + 1] # returned.data[1]

\* the matrix a per-matrix failure is about: the first when it is bad,
\* otherwise the second
FailingOrder == IF IsBad(matrixA) THEN "first" ELSE "second"
FailingMatrix == IF IsBad(matrixA) THEN matrixA ELSE matrixB

\* C17: every error the class raises tells what was wrong: a per-matrix
\* error names the failing matrix; an oversized-axis error gives the number
\* and the length of the lowest axis longer than MaxSize; a mismatch error
\* the columns of A and the rows of B; an index error the rejected index and
\* the exclusive upper bound (productCols or productRows).
C17_ErrorsIdentifyCause ==
    /\ raised.kind \in {"none", "dims", "empty", "toolarge", "mismatch",
                        "colindex", "rowindex"}
    /\ raised.kind \in {"dims", "empty", "toolarge"}
         => /\ call.op = "__init__"
            /\ IsBad(FailingMatrix)
            /\ raised.order = FailingOrder
    /\ raised.kind = "dims"
         => /\ raised.dims = Len(FailingMatrix.shape)
            /\ raised.dims # 2
    /\ raised.kind = "toolarge"
         => /\ raised.axis \in 0..(Len(FailingMatrix.shape) - 1)
            /\ raised.dim = FailingMatrix.shape[raised.axis + 1]
            /\ raised.dim > MaxSize
            /\ \A d \in 1..raised.axis : FailingMatrix.shape[d] <= MaxSize
    /\ raised.kind = "mismatch"
         => /\ call.op = "__init__"
            /\ raised.matrixACol = matrixA.shape[2]
            /\ raised.matrixBRow = matrixB.shape[1]
            /\ raised.matrixACol # raised.matrixBRow
    /\ raised.kind = "colindex"
         => /\ call.direction = <<COL>>
            /\ raised.index = call.args[1]
            /\ raised.bound = ProductCols(self)
            /\ ~(0 <= raised.index /\ raised.index < raised.bound)
    /\ raised.kind = "rowindex"
         => /\ call.direction = <<ROW>>
            /\ raised.index = call.args[1]
            /\ raised.bound = ProductRows(self)
            /\ ~(0 <= raised.index /\ raised.index < raised.bound)

\* the second matrix has two axes longer than MaxSize and the error names
\* it and axis 0
C17_Witness ==
    /\ pc = "failed"
    /\ raised.kind = "toolarge"
    /\ raised.order = "second"
    /\ raised.axis = 0
    /\ \A d \in 1..2 : matrixB.shape[d] > MaxSize

\* C18: in every object that was built both product dimensions are in
\* 1..MaxSize, so the product, each of its rows and each of its columns has
\* at least one element, and every statistic returned was computed over at
\* least one element.
C18_ProductDimensionsInRange ==
    matop = "bound"
    => /\ ProductRows(self) \in 1..MaxSize
       /\ ProductCols(self) \in 1..MaxSize
       /\ Len(self.product.data) = ProductRows(self) * ProductCols(self)
       /\ Len(self.product.data) >= 1
       /\ (pc = "returned" /\ IsQuery(call) /\ raised = NoError)
            => Len(returned.data) >= 1

\* a statistic of a single column of a product of one row has come back
C18_Witness ==
    /\ pc = "returned"
    /\ call.op = "getProductColProd"
    /\ raised = NoError
    /\ ProductRows(self) = 1
    /\ returned.data = <<At(self.product, 0, call.args[1])>>

\* ------------------------------------------------- exact integer arithmetic
\* An exact integer is a sign and a magnitude; the magnitude is the sequence
\* of its digits in base Radix, least significant first, without a leading
\* zero digit, so that zero is the empty sequence.

RECURSIVE Trim(_)
\* a digit sequence without its leading zero digits
Trim(m) ==
    IF m # <<>> /\ m[Len(m)] = 0 THEN Trim(SubSeq(m, 1, Len(m) - 1)) ELSE m

Digit(m, n) == IF n <= Len(m) THEN m[n] ELSE 0

Longer(a, b) == IF Len(a) > Len(b) THEN Len(a) ELSE Len(b)

MagAdd(a, b) ==
    LET len == Longer(a, b) + 1
        total[n \in 0..len] ==
            IF n = 0 THEN 0
            ELSE Digit(a, n) + Digit(b, n) + total[n - 1] \div Radix
    IN  Trim([n \in 1..len |-> total[n] % Radix])

\* a < b for magnitudes
MagLess(a, b) ==
    \/ Len(a) < Len(b)
    \/ /\ Len(a) = Len(b)
       /\ \E n \in 1..Len(a) :
            /\ a[n] < b[n]
            /\ \A m \in (n + 1)..Len(a) : a[m] = b[m]

\* a - b for magnitudes with b <= a; the borrow is a quotient of -1
MagSub(a, b) ==
    LET total[n \in 0..Len(a)] ==
            IF n = 0 THEN 0
            ELSE Digit(a, n) - Digit(b, n) + total[n - 1] \div Radix
    IN  Trim([n \in 1..Len(a) |-> total[n] % Radix])

RECURSIVE DigitProducts(_, _, _, _)
\* the sum of a[i] * b[n + 1 - i] for i from the given one up to n
DigitProducts(a, b, n, i) ==
    IF i > n THEN 0
    ELSE Digit(a, i) * Digit(b, n + 1 - i) + DigitProducts(a, b, n, i + 1)

MagMul(a, b) ==
    LET len == Len(a) + Len(b)
        total[n \in 0..len] ==
            IF n = 0 THEN 0
            ELSE DigitProducts(a, b, n, 1) + total[n - 1] \div Radix
    IN  Trim([n \in 1..len |-> total[n] % Radix])

Signed(neg, mag) == [neg |-> neg /\ mag # <<>>, mag |-> mag]

ExactMul(p, q) == Signed(p.neg # q.neg, MagMul(p.mag, q.mag))

ExactAdd(p, q) ==
    IF p.neg = q.neg THEN Signed(p.neg, MagAdd(p.mag, q.mag))
    ELSE IF MagLess(p.mag, q.mag) THEN Signed(q.neg, MagSub(q.mag, p.mag))
    ELSE Signed(p.neg, MagSub(p.mag, q.mag))

\* 2^64 as a magnitude
TwoTo64 == [n \in 1..(Int64Bytes + 1) |-> IF n = Int64Bytes + 1 THEN 1 ELSE 0]

\* the exact integer an int64 element holds
Exact(word) ==
    IF word[Int64Bytes] < Radix \div 2 THEN Signed(FALSE, Trim(word))
    ELSE Signed(TRUE, MagSub(TwoTo64, Trim(word)))

\* the int64 element that holds the exact integer p reduced modulo 2^64
Wrapped(p) ==
    LET low == Trim([n \in 1..Int64Bytes |-> Digit(p.mag, n)])
        residue == IF p.neg /\ low # <<>> THEN MagSub(TwoTo64, low) ELSE low
    IN  [n \in 1..Int64Bytes |-> Digit(residue, n)]

\* p does not fit in an int64 element
Overflows(p) == Exact(Wrapped(p)) # p

RECURSIVE Decimal(_)
\* the exact integer written with the given decimal digits
Decimal(digits) ==
    IF digits = <<>> THEN Signed(FALSE, <<>>)
    ELSE ExactAdd(ExactMul(Decimal(SubSeq(digits, 1, Len(digits) - 1)),
                           Signed(FALSE, <<10>>)),
                  Signed(FALSE, Trim(<<digits[Len(digits)]>>)))

RECURSIVE MagOf(_)
\* the magnitude of a number v >= 0
MagOf(v) == IF v = 0 THEN <<>> ELSE <<v % Radix>> \o MagOf(v \div Radix)

\* the exact integer of a number
ExactInt(v) ==
    IF v < 0 THEN Signed(TRUE, MagOf(0 - v)) ELSE Signed(FALSE, MagOf(v))

RECURSIVE ExactSumOver(_, _)
\* the exact sum and the exact product of the integers f[x] for x in S
ExactSumOver(f, S) ==
    IF S = {} THEN ExactInt(0)
    ELSE LET x == CHOOSE y \in S : TRUE
         IN  ExactAdd(f[x], ExactSumOver(f, S \ {x}))

RECURSIVE ExactProductOver(_, _)
ExactProductOver(f, S) ==
    IF S = {} THEN ExactInt(1)
    ELSE LET x == CHOOSE y \in S : TRUE
         IN  ExactMul(f[x], ExactProductOver(f, S \ {x}))

\* the exact integers held by the elements of an int64 array
ExactValues(array) == [n \in 1..Len(array.data) |-> Exact(array.data[n])]

\* the object was built from matrix_1 and matrix_2
NominalObject ==
    /\ matop = "bound"
    /\ matrixA = matrix_1
    /\ matrixB = matrix_2

\* the nominal object has answered the given call
Answered(op, index) ==
    /\ NominalObject
    /\ pc = "returned"
    /\ call.op = op
    /\ call.args = index

\* C15: for A = [[1,2,3],[4,5,6],[7,8,9]] and B = [[0,9],[8,-8],[3,6]] the
\* product is [[25,11],[58,32],[91,53]]; the sum of column 0 is 174, the
\* product of column 1 is 18656, the sum of row 0 is 36, the total sum 270,
\* the total product 2461659200, the mean 45, the median 42.5, the least
\* entry 11 and the greatest 91.
C15_NominalScenario ==
    /\ NominalObject
         => /\ self.product.shape = <<3, 2>>
            /\ ExactValues(self.product)
                 = <<ExactInt(25), ExactInt(11), ExactInt(58), ExactInt(32), ExactInt(91), ExactInt(53)>>
    /\ (NominalObject /\ pc = "returned" /\ IsQuery(call)
          /\ (call.args = <<>> \/ call.args[1] \in 0..1))
         => raised = NoError
    /\ Answered("getProductColSum", <<0>>)
         => Exact(returned.data[1]) = ExactInt(174)
    /\ Answered("getProductColProd", <<1>>)
         => Exact(returned.data[1]) = ExactInt(18656)
    /\ Answered("getProductRowSum", <<0>>)
         => Exact(returned.data[1]) = ExactInt(36)
    /\ Answered("getProductTotalSum", <<>>)
         => Exact(returned.data[1]) = ExactInt(270)
    /\ Answered("getProductTotalProd", <<>>)
         => Exact(returned.data[1]) = Decimal(<<2, 4, 6, 1, 6, 5, 9, 2, 0, 0>>)
    /\ Answered("getProductTotalMean", <<>>)
         => returned.data[1] = Fraction(45, 1)
    /\ Answered("getProductTotalMedian", <<>>)
         => returned.data[1] = Fraction(425, 10)
    /\ Answered("getProductTotalMin", <<>>)
         => Exact(returned.data[1]) = ExactInt(11)
    /\ Answered("getProductTotalMax", <<>>)
         => Exact(returned.data[1]) = ExactInt(91)

\* the total sum of the nominal product has come back as 270
C15_Witness ==
    /\ Answered("getProductTotalSum", <<>>)
    /\ raised = NoError
    /\ returned.shape = <<>>
    /\ Exact(returned.data[1]) = ExactInt(270)

\* the exact integers in column c and in row r of the product
ExactColumn(c) == [r \in RowNumbers |-> Exact(At(self.product, r, c))]
ExactRow(r) == [c \in ColNumbers |-> Exact(At(self.product, r, c))]

\* the exact inner product of row i of matrixA and column j of matrixB
ExactDot(i, j) ==
    LET K == 0..(matrixA.shape[2] - 1)
    IN  ExactSumOver([k \in K |-> ExactMul(Exact(At(matrixA, i, k)),
                                           Exact(At(matrixB, k, j)))], K)

\* the exact product of all the entries of the product matrix
ExactTotalProduct == ExactProductOver(ExactValues(self.product), Positions)

ProductQueries ==
    {"getProductColProd", "getProductColCumProd", "getProductRowProd",
     "getProductRowCumProd", "getProductTotalProd"}

\* a query that multiplies has come back from a call with an index in range
ProductQueryDone ==
    /\ pc = "returned"
    /\ call.op \in ProductQueries
    /\ call.op = "getProductColProd" => call.args[1] \in ColNumbers
    /\ call.op = "getProductRowProd" => call.args[1] \in RowNumbers

\* C20: with int64 matrices nothing is raised for overflow, and every entry
\* of the matrix product, every row, column and total product and every
\* entry of the cumulative products is the exact value reduced modulo 2^64
\* and read as a signed 64-bit integer.
C20_Int64Wraps ==
    dtype = "int64"
    => /\ (Constructed /\ IsMatrix(matrixA) /\ IsMatrix(matrixB)
             /\ matrixA.shape[2] = matrixB.shape[1])
            => matop = "bound" /\ pc # "failed"
       /\ matop = "bound"
            => \A i \in RowNumbers, j \in ColNumbers :
                 At(self.product, i, j) = Wrapped(ExactDot(i, j))
       /\ ProductQueryDone
            => /\ raised = NoError
               /\ call.op = "getProductColProd"
                    => returned.data[1] =
                         Wrapped(ExactProductOver(ExactColumn(call.args[1]),
                                                  RowNumbers))
               /\ call.op = "getProductRowProd"
                    => returned.data[1] =
                         Wrapped(ExactProductOver(ExactRow(call.args[1]),
                                                  ColNumbers))
               /\ call.op = "getProductTotalProd"
                    => returned.data[1] = Wrapped(ExactTotalProduct)
               /\ call.op = "getProductColCumProd"
                    => \A i \in RowNumbers, j \in ColNumbers :
                         ReturnedAt(i, j) =
                           Wrapped(ExactProductOver(ExactColumn(j), 0..i))
               /\ call.op = "getProductRowCumProd"
                    => \A i \in RowNumbers, j \in ColNumbers :
                         ReturnedAt(i, j) =
                           Wrapped(ExactProductOver(ExactRow(i), 0..j))

\* the total product has come back although neither it nor an inner product
\* of the construction fits in 64 bits
C20_Witness ==
    /\ dtype = "int64"
    /\ pc = "returned"
    /\ call.op = "getProductTotalProd"
    /\ raised = NoError
    /\ Overflows(ExactTotalProduct)
    /\ \E i \in RowNumbers, j \in ColNumbers : Overflows(ExactDot(i, j))

SingleLineMethods ==
    {"getProductColSum", "getProductColProd",
     "getProductRowSum", "getProductRowProd"}

\* the click went as far as calling a single-row or single-column method
SingleLineCallMade ==
    /\ click.reached \in {"output", "raise"}
    /\ click.call.op \in SingleLineMethods

\* the whole number the text of the entry field writes
EnteredNumber == Truncate(ParseFloat(opEntryField.text))

\* entry [i][j], counted from 1, of the product of the click
ProductEntry(i, j) ==
    click.matop.product.data[(i - 1) * click.matop.product.shape[2] + j]

\* the rows and columns of the product of the click, counted from 1
ClickRows == 1..click.matop.product.shape[1]
ClickCols == 1..click.matop.product.shape[2]

\* C19: when the Go handler accepts the entry n and calls a single-row or
\* single-column method, it passes the index n - 1: the result is the sum
\* (product) of the n-th row or column of the product counted from 1, so 1
\* selects the first and the row or column count the last.
C19_EntryIsOneBased ==
    SingleLineCallMade
    => LET n == EnteredNumber
       IN  /\ click.call.args = <<n - 1>>
           /\ click.reached = "output"
           /\ click.call.op = "getProductColSum"
                => /\ n \in ClickCols
                   /\ click.result.data[1] =
                        SumOver([i \in ClickRows |-> ProductEntry(i, n)],
                                ClickRows)
           /\ click.call.op = "getProductColProd"
                => /\ n \in ClickCols
                   /\ click.result.data[1] =
                        ProductOver([i \in ClickRows |-> ProductEntry(i, n)],
                                    ClickRows)
           /\ click.call.op = "getProductRowSum"
                => /\ n \in ClickRows
                   /\ click.result.data[1] =
                        SumOver([j \in ClickCols |-> ProductEntry(n, j)],
                                ClickCols)
           /\ click.call.op = "getProductRowProd"
                => /\ n \in ClickRows
                   /\ click.result.data[1] =
                        ProductOver([j \in ClickCols |-> ProductEntry(n, j)],
                                    ClickCols)

\* the column count was entered and the sum of the last column, which is
\* not that of the first, has been put out
C19_Witness ==
    /\ SingleLineCallMade
    /\ click.reached = "output"
    /\ click.call.op = "getProductColSum"
    /\ EnteredNumber = click.matop.product.shape[2]
    /\ click.call.args = <<click.matop.product.shape[2] - 1>>
    /\ click.result.data[1]
         # SumOver([i \in ClickRows |-> ProductEntry(i, 1)], ClickRows)
    /\ outputTextBox.blocks[opCounter].result = click.result

\* ------------------------------------ cumulative against single-line queries

\* the cumulative method that goes with each single-line method
CumulativeOf(op) ==
    CASE op = "getProductColSum"  -> "getProductColCumSum"
      [] op = "getProductColProd" -> "getProductColCumProd"
      [] op = "getProductRowSum"  -> "getProductRowCumSum"
      [] op = "getProductRowProd" -> "getProductRowCumProd"

\* the end of line index of a cumulative result: the last row at column
\* index for the column methods, the last column at row index for the row
\* methods
EndOfLine(cumulative, op, index) ==
    IF op \in ColumnQueries
    THEN cumulative.data[(cumulative.shape[1] - 1) * cumulative.shape[2]
                           + index + 1]
    ELSE cumulative.data[index * cumulative.shape[2] + cumulative.shape[2]]

\* a single-line query and the cumulative query that goes with it have
\* returned one after the other, in this order or the other
SingleAfterCumulative ==
    /\ pc = "returned" /\ raised = NoError
    /\ call.op \in ColumnQueries \cup RowQueries
    /\ previous.raised = NoError
    /\ previous.call.op = CumulativeOf(call.op)

CumulativeAfterSingle ==
    /\ pc = "returned" /\ raised = NoError
    /\ previous.call.op \in ColumnQueries \cup RowQueries
    /\ previous.raised = NoError
    /\ call.op = CumulativeOf(previous.call.op)

WritesSize(text) ==
    \E n \in 1..10 : ParseFloat(text) = [kind |-> "finite", num |-> n, den |-> 1]

\* the size fields hold a row or a column size that is empty, not a number,
\* not an integer or outside 1..10
BadSizes(fields) == ~WritesSize(fields.rowSize) \/ ~WritesSize(fields.colSize)

\* C23: a click on Set Size with a row or column entry that is empty, not a
\* number, not an integer or outside 1..10 shows a message box and leaves
\* the table of that matrix with the rows, columns and cells it had, also
\* when only the column entry is bad.
C23_SetSizeRejectsBadInput ==
    [][/\ (matrixASetSizeClicked /\ BadSizes(matrixASizeCollapsable))
            => /\ messagebox' # NoMessage
               /\ matrixAInputTable' = matrixAInputTable
       /\ (matrixBSetSizeClicked /\ BadSizes(matrixBSizeCollapsable))
            => /\ messagebox' # NoMessage
               /\ matrixBInputTable' = matrixBInputTable]_vars

\* Set Size of matrix A has refused the column size after a good row size
\* that is not the row count of the table, and the table holds generated
\* cells
C23_Witness ==
    /\ click.reached = "colSize"
    /\ messagebox # NoMessage
    /\ WritesSize(matrixASizeCollapsable.rowSize)
    /\ matrixASizeCollapsable.rowSize # IntegerText(matrixAInputTable.rows)
    /\ matrixAInputTable.cells[1] # EmptyText

\* ------------------------------------------------------- the size of a table

\* a table has between 1 and 10 rows and columns and an item in every cell
TableInRange(table) ==
    /\ table.rows \in 1..10
    /\ table.cols \in 1..10
    /\ Len(table.cells) = table.rows * table.cols

\* the last click was on Go and read matrix A, or both matrices
GoReadMatrixA == click.reached \in {"matrixB", "matop", "range", "output", "raise"}
GoReadBoth == click.reached \in {"matop", "range", "output", "raise"}

\* C29: after any sequence of Set Size, Generate, Clear All and Go each
\* table has 1 to 10 rows and 1 to 10 columns; a matrix Go reads from a
\* table is 2-D, not empty and within the size limit, and the only error
\* the construction raises for Go is that of incompatible shapes.
C29_TablesStayInRange ==
    /\ TableInRange(matrixAInputTable)
    /\ TableInRange(matrixBInputTable)
    /\ GoReadMatrixA => IsMatrix(click.matrixA)
    /\ GoReadBoth => IsMatrix(click.matrixB)
    /\ click.reached = "matop"
         => /\ messagebox.title = "Invalid Matrices"
            /\ messagebox.details =
                 MismatchError(click.matrixA.shape[2], click.matrixB.shape[1])
            /\ click.matrixA.shape[2] # click.matrixB.shape[1]

\* Go has read a matrix A of three columns and a matrix B of two rows from
\* tables filled by Generate, after Set Size gave table B two rows, and the
\* construction has raised
C29_Witness ==
    /\ click.reached = "matop"
    /\ matrixBInputTable.rows = 2
    /\ click.matrixA.shape = <<3, 3>>
    /\ click.matrixB.shape = <<2, 3>>
    /\ messagebox.title = "Invalid Matrices"

\* ------------------------------------------------------------------ Generate

\* every cell of the table holds a text
Filled(table) == \A n \in 1..Len(table.cells) : table.cells[n] # EmptyText

\* C22: for every min and max text and either number type a click on
\* Generate either fills every cell of the table with a generated value or
\* shows a message box and leaves the cells as they were; it never ends in
\* an error nothing handles, also when min is greater than or equal to max.
C22_GenerateHandlesEveryRange ==
    [][/\ matrixARandGenClicked
            => /\ click'.reached # "unhandled"
               /\ \/ messagebox' = NoMessage /\ Filled(matrixAInputTable')
                  \/ /\ messagebox' # NoMessage
                     /\ matrixAInputTable' = matrixAInputTable
       /\ matrixBRandGenClicked
            => /\ click'.reached # "unhandled"
               /\ \/ messagebox' = NoMessage /\ Filled(matrixBInputTable')
                  \/ /\ messagebox' # NoMessage
                     /\ matrixBInputTable' = matrixBInputTable]_vars

\* --------------------------------------------------------- the outcomes of Go

\* the text writes a number, and a whole number
WritesNumber(text) == ParseFloat(text).kind = "finite"
WritesInteger(text) == WritesNumber(text) /\ ParseFloat(text).den = 1

\* a cell of the table is empty or holds no number
BadCell(table) ==
    \E n \in 1..Len(table.cells) :
        table.cells[n] = EmptyText \/ ParseFloat(table.cells[n]).kind = "invalid"

\* the rows or columns of the product of the two tables that the selected
\* operation works on
LinesOfProduct ==
    IF opSelectComboBox \in OPS_ON_ROW
    THEN matrixAInputTable.rows ELSE matrixBInputTable.cols

\* the causes for which Go returns early: the entry is missing, is no
\* number, is no integer or is out of range, a cell is empty or holds no
\* number, or the shapes are incompatible
GoMustFail ==
    \/ /\ opEntryField.visible
       /\ \/ opEntryField.text = EmptyText
          \/ ~WritesInteger(opEntryField.text)
          \/ EnteredNumber \notin 1..LinesOfProduct
    \/ BadCell(matrixAInputTable)
    \/ BadCell(matrixBInputTable)
    \/ matrixAInputTable.cols # matrixBInputTable.rows

\* C21: a click on Go either appends one operation block (header, matrix
\* A, matrix B, result) and adds one to the counter, or shows a message box
\* and leaves output and counter as they were; the second happens exactly
\* for a missing, non-numeric, non-integer or out-of-range entry, an empty
\* or non-numeric cell, and an error of the construction.
C21_GoAppendsOrReports ==
    [][goButtonClicked
         => IF GoMustFail
            THEN /\ messagebox' # NoMessage
                 /\ opCounter' = opCounter
                 /\ outputTextBox' = outputTextBox
            ELSE /\ messagebox' = NoMessage
                 /\ opCounter' = opCounter + 1
                 /\ outputTextBox'.visible
                 /\ Len(outputTextBox'.blocks) = Len(outputTextBox.blocks) + 1
                 /\ SubSeq(outputTextBox'.blocks, 1, Len(outputTextBox.blocks))
                      = outputTextBox.blocks
                 /\ LET block == outputTextBox'.blocks[Len(outputTextBox'.blocks)]
                    IN  /\ block.counter = opCounter'
                        /\ block.name = nameLineEdit
                        /\ block.matrixA.shape
                             = <<matrixAInputTable.rows, matrixAInputTable.cols>>
                        /\ block.matrixB.shape
                             = <<matrixBInputTable.rows, matrixBInputTable.cols>>
                        /\ block.operation = opSelectComboBox
                        /\ block.result # NoResult]_vars

\* Go has shown the message of the construction for tables of incompatible
\* shapes with numbers in every cell, and nothing was put out
C21_Witness ==
    /\ click.reached = "matop"
    /\ messagebox.title = "Invalid Matrices"
    /\ ~BadCell(matrixAInputTable)
    /\ ~BadCell(matrixBInputTable)
    /\ matrixAInputTable.cols # matrixBInputTable.rows
    /\ opCounter = 0
    /\ outputTextBox.blocks = <<>>

\* ------------------------------------------- the index Go passes to the core

RowLineMethods == {"getProductRowSum", "getProductRowProd"}

\* the bound of the axis the method of the click works on
AxisBound ==
    IF click.call.op \in RowLineMethods
    THEN click.matop.product.shape[1] ELSE click.matop.product.shape[2]

\* C26: in every click on Go that comes to call getProductColSum, ColProd,
\* RowSum or RowProd, the index passed is at least 0 and below the bound of
\* the axis of the operation, the rows of the fresh product for the two row
\* operations and its columns for the two column operations, so the index
\* check of the core raises nothing.
C26_IndexCheckNeverFires ==
    SingleLineCallMade
    => /\ Len(click.call.args) = 1
       /\ 0 <= click.call.args[1]
       /\ click.call.args[1] < AxisBound
       /\ click.matop.product.shape
            = <<click.matrixA.shape[1], click.matrixB.shape[2]>>
       /\ click.raised = NoError
       /\ click.reached = "output"

\* the last row of a product with fewer columns than rows was asked for: the
\* index is within the rows and beyond the columns
C26_Witness ==
    /\ SingleLineCallMade
    /\ click.call.op \in RowLineMethods
    /\ click.call.args = <<click.matop.product.shape[1] - 1>>
    /\ click.matop.product.shape[2] < click.matop.product.shape[1]
    /\ click.raised = NoError

\* ------------------------------------------- when the entry field is shown

\* the four operations on a single row or column of the product
SingleLineOperations ==
    {"Sum of Column of Product", "Product of Column of Product",
     "Sum of Row of Product", "Product of Row of Product"}

\* the click went as far as the dispatch on the selected operation
Dispatched == click.reached \in {"output", "raise"}

\* C27: the entry field is visible exactly when the selected operation is
\* one of the four single-row or single-column operations; so when Go
\* dispatches to one of the four, the entry was read as an integer and
\* tested against the product in the same click and its index is passed,
\* and when Go dispatches to any other operation no index is passed and
\* none is missed.
C27_EntryShownForLineOperations ==
    /\ opEntryField.visible <=> opSelectComboBox \in SingleLineOperations
    /\ Dispatched
         => /\ click.reached = "output"
            /\ click.raised = NoError
            /\ click.call.op \in SingleLineMethods
                 <=> opSelectComboBox \in SingleLineOperations
            /\ IF opSelectComboBox \in SingleLineOperations
               THEN /\ opEntryField.visible
                    /\ WritesInteger(opEntryField.text)
                    /\ EnteredNumber \in 1..AxisBound
                    /\ click.call.args = <<EnteredNumber - 1>>
               ELSE /\ ~opEntryField.visible
                    /\ click.call.args = <<>>

\* a column operation is selected, its field is visible, a number was
\* entered, and Go has dispatched with the index of that number
C27_Witness ==
    /\ Dispatched
    /\ opSelectComboBox = "Sum of Column of Product"
    /\ opEntryField.visible
    /\ click.call.op = "getProductColSum"
    /\ click.call.args = <<EnteredNumber - 1>>

\* --------------------------------------------------- the numbers of the runs

\* C28: with clicks on Go and Clear All and no Load, the k-th successful Go
\* since the start or the last Clear All is labelled Operation k; a failed
\* Go takes no number, no number is repeated or skipped, and the counter is
\* the number of blocks in the output.
C28_OperationNumbersConsecutive ==
    /\ opCounter = Len(outputTextBox.blocks)
    /\ \A k \in 1..Len(outputTextBox.blocks) :
           /\ outputTextBox.blocks[k].counter = k
           /\ Head(FindAll(HeaderText(outputTextBox.blocks[k]), 1)) = k

\* a second operation was put out under another name than the first
C28_Witness ==
    /\ click.reached = "output"
    /\ opCounter = 2
    /\ Len(outputTextBox.blocks) = 2
    /\ outputTextBox.blocks[1].counter = 1
    /\ outputTextBox.blocks[2].counter = 2
    /\ outputTextBox.blocks[1].name # outputTextBox.blocks[2].name

\* ------------------------------------------------------------------ Clear All

\* every cell of the table is empty
AllCellsEmpty(table) ==
    \A n \in 1..Len(table.cells) : table.cells[n] = EmptyText

\* what Clear All does to the tables, the output and the counter
ClearedTablesAndOutput ==
    /\ AllCellsEmpty(matrixAInputTable')
    /\ AllCellsEmpty(matrixBInputTable')
    /\ matrixAInputTable'.rows = matrixAInputTable.rows
    /\ matrixAInputTable'.cols = matrixAInputTable.cols
    /\ matrixBInputTable'.rows = matrixBInputTable.rows
    /\ matrixBInputTable'.cols = matrixBInputTable.cols
    /\ Len(matrixAInputTable'.cells)
         = matrixAInputTable.rows * matrixAInputTable.cols
    /\ Len(matrixBInputTable'.cells)
         = matrixBInputTable.rows * matrixBInputTable.cols
    /\ outputTextBox'.blocks = <<>>
    /\ opCounter' = 0

\* C24: after Clear All every cell of both tables is empty and each table
\* has the rows and columns it had, the output text is empty, the counter is
\* 0, and neither the run name nor the row/column entry field holds what
\* was entered before.
C24_ClearAllClearsEveryInput ==
    [][clearAll
         => /\ ClearedTablesAndOutput
            /\ nameLineEdit' = EmptyText
            /\ opEntryField'.text = EmptyText]_vars

\* -------------------------------------------------------------- Save and Load

\* the saved text was put out by clicks on Go alone, since the start or a
\* Clear All: its blocks are numbered from 1 on without a gap
SavedFromGoAlone ==
    /\ outfile.written
    /\ \A k \in 1..Len(outfile.blocks) : outfile.blocks[k].counter = k

\* C30: loading a file saved from an output that clicks on Go alone
\* produced, under any run names, sets the counter to the number of the
\* last operation in the file, 0 for an empty file, so the next successful
\* Go is numbered one higher.
C30_LoadRestoresCounter ==
    [][(load /\ SavedFromGoAlone)
         => /\ opCounter' = Len(outfile.blocks)
            /\ outputTextBox'.blocks = outfile.blocks]_vars
====
